---------------------------- MODULE Spec2Model ----------------------------
(***************************************************************************)
(* A model of hal's closed-loop evaluation code.                           *)
(*                                                                         *)
(*   Spec    EmulatorManager.run_game (src/hal/emulator_helper.py): the    *)
(*           generator that connects to the console, steps it under a      *)
(*           timeout, navigates the menus, yields in-game frames and       *)
(*           applies the caller's controller inputs, inside                *)
(*           console_manager's teardown.                                   *)
(*   SpecEp  run_episode and model_server                                  *)
(*           (src/hal/eval/eval_closed_loop.py): the episode loop and the  *)
(*           inference worker process, joined by two queues.               *)
(*                                                                         *)
(* An optional value (a gamestate or controller inputs that may be None)   *)
(* is a sequence of length 0 or 1: <<>> is None, <<v>> is the value v.     *)
(***************************************************************************)
EXTENDS Integers, Sequences, FiniteSets, TLC

VARIABLES
    (* ---- EmulatorManager.run_game ---- *)
    pc,                 \* position of the generator
    i,                  \* run_game's local i
    match_started,      \* run_game's local match_started
    gamestate,          \* run_game's local gamestate (optional)
    controller_inputs,  \* run_game's local controller_inputs (optional)
    console,            \* melee.Console: [running, connected, steps, stops]
    step_future,        \* the future of the submitted console.step: "none", "running", "done"
    ego_controller,     \* melee.Controller: [connected, calls, last]
    opponent_controller,\* melee.Controller: [connected, calls, last]
    console_logger,     \* melee.Logger or None: [enabled, writelogs, writeframes]
    episode_stats,      \* EpisodeStats
    sigint_handler,     \* the installed SIGINT handler: "original" or "console_manager"
    exc,                \* the exception in flight: "none" or its class
    left_by,            \* why the episode loop was left ("none" while it runs)
    yields,             \* number of gamestates yielded to the caller
    menu_calls,         \* number of calls of self_play_menu_helper
    teardown,           \* the operations console_manager's finally block performed, in order
    outcome,            \* how the generator ended: "running", "returned", "raised", "exited"
    exit_code,          \* the argument of sys.exit (optional)
    (* ---- run_episode and model_server ---- *)
    ep_pc,              \* position of run_episode
    ep_i,               \* run_episode's local i
    ep_match_started,   \* run_episode's local match_started
    ep_gamestate,       \* run_episode's local gamestate (optional)
    ep_inputs,          \* run_episode's local controller_inputs (optional)
    ep_console,         \* melee.Console: [running, connected, steps, stops]
    controller_1,       \* melee.Controller: [connected, calls, last]
    controller_2,       \* melee.Controller: [connected, calls, last]
    input_queue,        \* mp.Queue of optional gamestates (None is the sentinel)
    output_queue,       \* mp.Queue of controller inputs
    ml_process,         \* model_server's process: "waiting", "computing", "exited",
                        \* "crashed", "terminated"
    worker_gamestate,   \* model_server's local gamestate (optional)
    frame_data,         \* model_server's deques (maxlen input_len), as one sequence of frames
    ep_exc,             \* the exception in flight in run_episode
    ep_left_by,         \* why run_episode's loop was left
    ep_outcome,         \* "running", "returned", "raised", "exited"
    consumed,           \* history: the gamestates model_server took, in order
    published,          \* history: the controller inputs model_server put, in order
    (* ---- self_play_menu_helper and send_controller_inputs, called directly ---- *)
    cfg_character_2,    \* the caller's character_2 (optional)
    cfg_stage_selected, \* the caller's stage_selected (optional)
    menu_controller_1,  \* melee.Controller: [connected, calls, last]
    menu_controller_2,  \* melee.Controller: [connected, calls, last]
    menu_gamestate,     \* the gamestate of the last self_play_menu_helper call (optional)
    sent_inputs,        \* the inputs of the last send_controller_inputs call (optional)
    helper_calls,       \* number of calls of the two helpers so far
    (* ---- convert_target_to_one_hot ---- *)
    target_array,       \* the (T, D) argument: a sequence of T rows of D bits
    target_one_hot,     \* the (T, D + 1) result (optional)
    (* ---- convert_target_button_to_one_hot ---- *)
    button_array,       \* the (B, T, D) argument: B sequences of T rows of D bits
    button_one_hot,     \* the (B, T, D + 1) result of a first call (optional)
    button_one_hot_2,   \* the result of a second call on the same argument (optional)
    (* ---- Preprocessor.sample_from_episode and offset_features ---- *)
    frame_offsets_by_feature, \* the configured map: feature name -> frame offset
    seq_len,            \* the configured seq_len
    episode_len,        \* number of frames of the episode (of every ndarray)
    sample_T,           \* the sample: feature name -> sequence of frames (optional)
    offset_features,    \* offset_features' local dict of slices (optional)
    prep_exc,           \* the exception a Preprocessor call raised ("none" if none)
    (* ---- find_open_udp_ports ---- *)
    system,             \* platform.system()
    netstat_lines,      \* the sockets netstat lists: a set of [address, port]
    num,                \* the requested number of ports
    open_ports,         \* the returned list of ports (optional)
    ports_exc,          \* the exception find_open_udp_ports raised ("none" if none)
    (* ---- EpisodeStats.__add__ ---- *)
    add_operands,       \* three EpisodeStats: [a, b, c]
    add_sums,           \* [ab, ba, ab_c, a_bc]: a + b, b + a, (a + b) + c, a + (b + c) (optional)
    (* ---- several EmulatorManager instances in one process ---- *)
    stats_objects,      \* the EpisodeStats objects: object id -> EpisodeStats
    manager_stats,      \* per manager: the id of its episode_stats (None before creation)
    manager_frames,     \* per manager: number of frames it has processed
    (* ---- process_replay and extract_and_append_single_frame_inplace ---- *)
    replay_fed,         \* the gamestates console.step() has returned so far: g_0, g_1, ...
    replay_prev,        \* prev_gamestate (optional)
    replay_frame_data,  \* frame_data: column name -> list of values
    replay_status,      \* "running", "ended", or the exception that ended process_replay
    (* ---- sparse_one_hot ---- *)
    sparse_array,       \* the (T, D) argument: T rows of D bits, the last column meaning "no button"
    sparse_result,      \* the (T, D) result (optional)
    (* ---- pad_tensors, called directly ---- *)
    pad_td,             \* the TensorDict argument: [ndim, data], data a sequence of T frames
    pad_length,         \* the length argument
    pad_result,         \* the returned TensorDict (optional)
    pad_exc,            \* the exception pad_tensors raised ("none" if none)
    (* ---- EpisodeStats.update, called directly ---- *)
    stats,              \* an EpisodeStats
    stats_calls,        \* number of update calls so far
    stats_in_game_calls \* number of them whose gamestate was IN_GAME or SUDDEN_DEATH

gameVars == <<pc, i, match_started, gamestate, controller_inputs, console, step_future,
              ego_controller, opponent_controller, console_logger, episode_stats,
              sigint_handler, exc, left_by, yields, menu_calls, teardown, outcome,
              exit_code>>

epVars == <<ep_pc, ep_i, ep_match_started, ep_gamestate, ep_inputs, ep_console,
            controller_1, controller_2, input_queue, output_queue, ml_process,
            worker_gamestate, frame_data, ep_exc, ep_left_by, ep_outcome,
            consumed, published>>

helperVars == <<cfg_character_2, cfg_stage_selected, menu_controller_1, menu_controller_2,
                menu_gamestate, sent_inputs, helper_calls>>

encVars == <<target_array, target_one_hot>>

buttonVars == <<button_array, button_one_hot, button_one_hot_2>>

prepVars == <<frame_offsets_by_feature, seq_len, episode_len, sample_T, offset_features,
              prep_exc>>

portVars == <<system, netstat_lines, num, open_ports, ports_exc>>

addVars == <<add_operands, add_sums>>

managerVars == <<stats_objects, manager_stats, manager_frames>>

replayVars == <<replay_fed, replay_prev, replay_frame_data, replay_status>>

sparseVars == <<sparse_array, sparse_result>>

padVars == <<pad_td, pad_length, pad_result, pad_exc>>

statsVars == <<stats, stats_calls, stats_in_game_calls>>

miscVars == <<portVars, addVars, managerVars, replayVars, sparseVars, padVars, statsVars>>

\* The variables of the functions that are run on their own.
fnVars == <<helperVars, encVars, buttonVars, prepVars, miscVars>>

vars == <<gameVars, epVars, fnVars>>

(***************************************************************************)
(* Bounds of the model.                                                    *)
(***************************************************************************)
\* EmulatorManager.max_steps, a configuration value (default 99999).
MaxSteps == 3
\* Cap on the number of console.step() calls of one episode: None frames and
\* menu frames do not advance i, so the loop itself does not bound them.
MaxStepCalls == 5
\* run_episode's step limit (10000 in the code), scaled down.
EpisodeStepLimit == 3
\* Cap on the number of console.step() calls of run_episode.
EpMaxStepCalls == 4
\* train_config.data.input_len, a configuration value.
InputLen == 2

\* Number of direct calls of self_play_menu_helper and send_controller_inputs.
MaxHelperCalls == 2

\* The (T, D) arrays given to convert_target_to_one_hot: up to MaxFrames frames
\* of NumButtons buttons.
MaxFrames == 3

NumButtons == 3

\* The (B, T, D) arrays given to convert_target_button_to_one_hot: up to
\* MaxBatch sequences of up to MaxButtonFrames frames of NumButtons buttons.
MaxBatch == 2

MaxButtonFrames == 2

\* Frame offsets are within -MaxOffset..MaxOffset, seq_len within 1..MaxSeqLen,
\* and an episode has up to MaxEpisodeLen frames.
MaxOffset == 1

MaxSeqLen == 2

MaxEpisodeLen == 4

\* find_open_udp_ports: ports in the range, netstat lines, largest requested num
NumPorts == 3

MaxLines == 2

MaxNum == 4

\* EpisodeStats.__add__: largest counter of an operand
MaxCounter == 1

\* EmulatorManager instances in one process, and frames each may process
NumManagers == 2

MaxManagerFrames == 2

\* process_replay: gamestates of a replay
MaxReplayFrames == 4

\* pad_tensors: largest length argument, and D of a (T, D) tensor
MaxPadLength == 3

PadDim == 2

\* EpisodeStats.update: calls in a row
MaxUpdates == 4

(***************************************************************************)
(* Values.                                                                 *)
(***************************************************************************)
None == <<>>

Some(v) == <<v>>

\* melee.Menu values the code distinguishes, and one it does not.
MenuStates == {"MAIN_MENU", "CHARACTER_SELECT", "STAGE_SELECT", "POSTGAME_SCORES",
               "UNKNOWN_MENU", "IN_GAME", "SUDDEN_DEATH"}

InGameStates == {"IN_GAME", "SUDDEN_DEATH"}

\* The players' percent and stock of a frame, as EpisodeStats.update reads them.
FreshPlayers == [p1_percent |-> 0, p2_percent |-> 0, p1_stock |-> 4, p2_stock |-> 4]

HitPlayers == [p1_percent |-> 10, p2_percent |-> 0, p1_stock |-> 3, p2_stock |-> 4]

MkGamestate(m, s, pl) ==
    [menu_state |-> m, p1_selected |-> s,
     p1_percent |-> pl.p1_percent, p2_percent |-> pl.p2_percent,
     p1_stock |-> pl.p1_stock, p2_stock |-> pl.p2_stock]

\* The gamestates console.step() may return: menu_state, whether player 1's
\* character is already character_1 (read on the character select screen),
\* and the players' percent and stock (read in game).
Gamestates ==
    { MkGamestate(m, FALSE, FreshPlayers) : m \in MenuStates \ {"CHARACTER_SELECT"} }
    \cup { MkGamestate("CHARACTER_SELECT", s, FreshPlayers) : s \in BOOLEAN }
    \cup { MkGamestate("IN_GAME", FALSE, HitPlayers) }

INCLUDED_BUTTONS == <<"BUTTON_A", "BUTTON_B", "BUTTON_X", "BUTTON_Z", "BUTTON_L", "NO_BUTTON">>

\* Controller inputs a caller may send: sticks, an optional shoulder, one button name.
ControllerInputs ==
    { [main_stick |-> <<0, 1>>, c_stick |-> <<1, 0>>, shoulder |-> None, button |-> "BUTTON_A"],
      [main_stick |-> <<1, 1>>, c_stick |-> <<0, 0>>, shoulder |-> Some(1), button |-> "NO_BUTTON"] }


(***************************************************************************)
(* Controllers.  A controller records the operations of the last call made *)
(* on it (last), and how many calls were made on it (calls).  An operation *)
(* is [op, arg, val], val a tuple of integers.                             *)
(***************************************************************************)
Op(o, a, v) == [op |-> o, arg |-> a, val |-> v]

\* send_controller_inputs' loop over INCLUDED_BUTTONS, from index k on.
RECURSIVE ButtonOps(_, _)
ButtonOps(inputs, k) ==
    IF k > Len(INCLUDED_BUTTONS) THEN <<>>
    ELSE IF INCLUDED_BUTTONS[k] = "NO_BUTTON" THEN ButtonOps(inputs, k + 1)
    ELSE IF inputs.button = INCLUDED_BUTTONS[k]
         THEN <<Op("press_button", INCLUDED_BUTTONS[k], <<>>)>> \o ButtonOps(inputs, k + 1)
         ELSE <<Op("release_button", INCLUDED_BUTTONS[k], <<>>)>> \o ButtonOps(inputs, k + 1)

\* Faulty variant of SendControllerInputs: the named button is pressed and the
\* other buttons are left as they are.
SendControllerInputs_KeepsHeld(inputs) ==
    <<Op("tilt_analog", "BUTTON_MAIN", inputs.main_stick),
      Op("tilt_analog", "BUTTON_C", inputs.c_stick)>>
    \o (IF inputs.shoulder # None
        THEN <<Op("press_shoulder", "BUTTON_L", inputs.shoulder)>>
        ELSE <<>>)
    \o SelectSeq(ButtonOps(inputs, 1), LAMBDA o : o.op = "press_button")
    \o <<Op("flush", "", <<>>)>>

\* send_controller_inputs(controller, inputs): the operations it issues, in order.
SendControllerInputs(inputs) ==
    <<Op("tilt_analog", "BUTTON_MAIN", inputs.main_stick),
      Op("tilt_analog", "BUTTON_C", inputs.c_stick)>>
    \o (IF inputs.shoulder # None
        THEN <<Op("press_shoulder", "BUTTON_L", inputs.shoulder)>>
        ELSE <<>>)
    \o ButtonOps(inputs, 1)
    \o <<Op("flush", "", <<>>)>>

\* A call on a controller that issues the operations ops.
Issue(controller, ops) ==
    [controller EXCEPT !.calls = @ + 1, !.last = ops]

(***************************************************************************)
(* self_play_menu_helper: the MenuHelper calls of one invocation, each     *)
(* [controller, ops].  character_2 and stage_selected are optional.        *)
(***************************************************************************)
MenuCall(c, ops) == [controller |-> c, ops |-> ops]

\* Faulty variant of SelfPlayMenuHelper: on the character select screen the
\* opponent's character is chosen without looking at player 1's character.
SelfPlayMenuHelper_OpponentFirst(gs, character_2, stage_selected) ==
    IF gs.menu_state = "MAIN_MENU"
    THEN <<MenuCall("controller_1", <<Op("choose_versus_mode", "", <<>>)>>)>>
    ELSE IF gs.menu_state = "CHARACTER_SELECT"
    THEN IF character_2 # None
         THEN <<MenuCall("controller_2", <<Op("choose_character", "character_2", <<1>>)>>)>>
         ELSE IF ~gs.p1_selected
              THEN <<MenuCall("controller_1", <<Op("choose_character", "character_1", <<0>>)>>)>>
              ELSE <<>>
    ELSE IF gs.menu_state = "STAGE_SELECT"
    THEN IF stage_selected = None
         THEN <<>>
         ELSE <<MenuCall("controller_1", <<Op("choose_stage", "stage_selected", <<>>)>>)>>
    ELSE IF gs.menu_state = "POSTGAME_SCORES"
    THEN <<MenuCall("controller_1", <<Op("skip_postgame", "", <<>>)>>)>>
    ELSE <<>>

\* Faulty variant of SelfPlayMenuHelper: an unconfigured character_2 or
\* stage_selected does not make the helper return early.
SelfPlayMenuHelper_NoEarlyReturn(gs, character_2, stage_selected) ==
    IF gs.menu_state = "MAIN_MENU"
    THEN <<MenuCall("controller_1", <<Op("choose_versus_mode", "", <<>>)>>)>>
    ELSE IF gs.menu_state = "CHARACTER_SELECT"
    THEN IF ~gs.p1_selected
         THEN <<MenuCall("controller_1", <<Op("choose_character", "character_1", <<0>>)>>)>>
         ELSE <<MenuCall("controller_2", <<Op("choose_character", "character_2", <<1>>)>>)>>
    ELSE IF gs.menu_state = "STAGE_SELECT"
    THEN <<MenuCall("controller_1", <<Op("choose_stage", "stage_selected", <<>>)>>)>>
    ELSE IF gs.menu_state = "POSTGAME_SCORES"
    THEN <<MenuCall("controller_1", <<Op("skip_postgame", "", <<>>)>>)>>
    ELSE <<>>

\* Faulty variant of SelfPlayMenuHelper: the postgame screen is left alone.
SelfPlayMenuHelper_NoPostgame(gs, character_2, stage_selected) ==
    IF gs.menu_state = "MAIN_MENU"
    THEN <<MenuCall("controller_1", <<Op("choose_versus_mode", "", <<>>)>>)>>
    ELSE IF gs.menu_state = "CHARACTER_SELECT"
    THEN IF ~gs.p1_selected
         THEN <<MenuCall("controller_1", <<Op("choose_character", "character_1", <<0>>)>>)>>
         ELSE IF character_2 = None
              THEN <<>>
              ELSE <<MenuCall("controller_2", <<Op("choose_character", "character_2", <<1>>)>>)>>
    ELSE IF gs.menu_state = "STAGE_SELECT"
    THEN IF stage_selected = None
         THEN <<>>
         ELSE <<MenuCall("controller_1", <<Op("choose_stage", "stage_selected", <<>>)>>)>>
    ELSE <<>>

\* self_play_menu_helper: the MenuHelper calls it makes
SelfPlayMenuHelper(gs, character_2, stage_selected) ==
    IF gs.menu_state = "MAIN_MENU"
    THEN <<MenuCall("controller_1", <<Op("choose_versus_mode", "", <<>>)>>)>>
    ELSE IF gs.menu_state = "CHARACTER_SELECT"
    THEN IF ~gs.p1_selected
         THEN <<MenuCall("controller_1", <<Op("choose_character", "character_1", <<0>>)>>)>>
         ELSE IF character_2 = None
              THEN <<>>
              ELSE <<MenuCall("controller_2", <<Op("choose_character", "character_2", <<1>>)>>)>>
    ELSE IF gs.menu_state = "STAGE_SELECT"
    THEN IF stage_selected = None
         THEN <<>>
         ELSE <<MenuCall("controller_1", <<Op("choose_stage", "stage_selected", <<>>)>>)>>
    ELSE IF gs.menu_state = "POSTGAME_SCORES"
    THEN <<MenuCall("controller_1", <<Op("skip_postgame", "", <<>>)>>)>>
    ELSE <<>>

\* The controller after the menu helper's calls on it (name is its parameter name).
AfterMenuCalls(controller, name, calls) ==
    IF calls # <<>> /\ calls[1].controller = name
    THEN Issue(controller, calls[1].ops)
    ELSE controller

(***************************************************************************)
(* EpisodeStats.                                                           *)
(***************************************************************************)
NewEpisodeStats ==
    [p1_damage |-> 0, p2_damage |-> 0, p1_stocks_lost |-> 0, p2_stocks_lost |-> 0,
     frames |-> 0, episodes |-> 1,
     prev_p1_stock |-> 0, prev_p2_stock |-> 0, prev_p1_percent |-> 0, prev_p2_percent |-> 0]

Max(a, b) == IF a >= b THEN a ELSE b

BoolToInt(b) == IF b THEN 1 ELSE 0

\* Faulty variant of StatsUpdate: the menu state is not looked at.
StatsUpdate_AnyState(st, gs) ==
    [st EXCEPT
        !.p1_damage = @ + Max(0, gs.p1_percent - st.prev_p1_percent),
        !.p2_damage = @ + Max(0, gs.p2_percent - st.prev_p2_percent),
        !.p1_stocks_lost = @ + BoolToInt(gs.p1_stock < 4 /\ gs.p1_stock < st.prev_p1_stock),
        !.p2_stocks_lost = @ + BoolToInt(gs.p2_stock < 4 /\ gs.p2_stock < st.prev_p2_stock),
        !.prev_p1_percent = gs.p1_percent,
        !.prev_p2_percent = gs.p2_percent,
        !.prev_p1_stock = gs.p1_stock,
        !.prev_p2_stock = gs.p2_stock,
        !.frames = @ + 1]

\* EpisodeStats.update(gamestate)
StatsUpdate(st, gs) ==
    IF gs.menu_state \notin InGameStates THEN st
    ELSE [st EXCEPT
            !.p1_damage = @ + Max(0, gs.p1_percent - st.prev_p1_percent),
            !.p2_damage = @ + Max(0, gs.p2_percent - st.prev_p2_percent),
            !.p1_stocks_lost = @ + BoolToInt(gs.p1_stock < 4 /\ gs.p1_stock < st.prev_p1_stock),
            !.p2_stocks_lost = @ + BoolToInt(gs.p2_stock < 4 /\ gs.p2_stock < st.prev_p2_stock),
            !.prev_p1_percent = gs.p1_percent,
            !.prev_p2_percent = gs.p2_percent,
            !.prev_p1_stock = gs.p1_stock,
            !.prev_p2_stock = gs.p2_stock,
            !.frames = @ + 1]

(***************************************************************************)
(* EmulatorManager.run_game                                                *)
(*                                                                         *)
(* pc: "start" (generator created, not yet advanced), "connect_ego",       *)
(* "connect_opp", "loop" (at the while test), "await_step" (blocked in     *)
(* future.result), "yielded" (suspended at the yield), "exit_manager"      *)
(* (leaving console_manager), "exit_executor" (leaving the executor's with *)
(* block), "done".                                                         *)
(***************************************************************************)
NewController == [connected |-> FALSE, calls |-> 0, last |-> <<>>]

InitGame ==
    /\ pc = "start"
    /\ i = 0
    /\ match_started = FALSE
    /\ gamestate = None
    /\ controller_inputs = None
    /\ console = [running |-> FALSE, connected |-> FALSE, steps |-> 0, stops |-> 0]
    /\ step_future = "none"
    /\ ego_controller = NewController
    /\ opponent_controller = NewController
    /\ console_logger \in { [enabled |-> d, writelogs |-> 0, writeframes |-> 0] : d \in BOOLEAN }
    /\ episode_stats = NewEpisodeStats
    /\ sigint_handler = "original"
    /\ exc = "none"
    /\ left_by = "none"
    /\ yields = 0
    /\ menu_calls = 0
    /\ teardown = <<>>
    /\ outcome = "running"
    /\ exit_code = None

\* sys.exit(-1) after a failed connect: SystemExit leaves the generator.
SysExit ==
    /\ pc' = "done"
    /\ outcome' = "exited"
    /\ exit_code' = Some(-1)

\* console.run(), then console.connect()
ConnectConsole(ok) ==
    /\ pc = "start"
    /\ console' = [console EXCEPT !.running = TRUE, !.connected = ok]
    /\ IF ok
       THEN pc' = "connect_ego" /\ UNCHANGED <<outcome, exit_code>>
       ELSE SysExit
    /\ UNCHANGED <<i, match_started, gamestate, controller_inputs, step_future,
                   ego_controller, opponent_controller, console_logger, episode_stats,
                   sigint_handler, exc, left_by, yields, menu_calls, teardown>>
    /\ UNCHANGED <<epVars, fnVars>>

\* Faulty variant of ConnectEgo: the result of connect() is ignored.
ConnectEgo_Ignored(ok) ==
    /\ pc = "connect_ego"
    /\ ego_controller' = [ego_controller EXCEPT !.connected = ok]
    /\ pc' = "connect_opp"
    /\ UNCHANGED <<i, match_started, gamestate, controller_inputs, console, step_future,
                   opponent_controller, console_logger, episode_stats,
                   sigint_handler, exc, left_by, yields, menu_calls, teardown, outcome,
                   exit_code>>
    /\ UNCHANGED <<epVars, fnVars>>

\* ego_controller.connect()
ConnectEgo(ok) ==
    /\ pc = "connect_ego"
    /\ ego_controller' = [ego_controller EXCEPT !.connected = ok]
    /\ IF ok
       THEN pc' = "connect_opp" /\ UNCHANGED <<outcome, exit_code>>
       ELSE SysExit
    /\ UNCHANGED <<i, match_started, gamestate, controller_inputs, console, step_future,
                   opponent_controller, console_logger, episode_stats,
                   sigint_handler, exc, left_by, yields, menu_calls, teardown>>
    /\ UNCHANGED <<epVars, fnVars>>

\* opponent_controller.connect(); then i = 0, match_started = False, and the
\* with statement is entered: console_manager installs its SIGINT handler.
ConnectOpponent(ok) ==
    /\ pc = "connect_opp"
    /\ opponent_controller' = [opponent_controller EXCEPT !.connected = ok]
    /\ IF ok
       THEN /\ pc' = "loop"
            /\ i' = 0
            /\ match_started' = FALSE
            /\ sigint_handler' = "console_manager"
            /\ UNCHANGED <<outcome, exit_code>>
       ELSE /\ SysExit
            /\ UNCHANGED <<i, match_started, sigint_handler>>
    /\ UNCHANGED <<gamestate, controller_inputs, console, step_future,
                   ego_controller, console_logger, episode_stats,
                   exc, left_by, yields, menu_calls, teardown>>
    /\ UNCHANGED <<epVars, fnVars>>

\* The loop is left: by break or the while test (e = "none"), or by exception e.
LeaveLoop(why, e) ==
    /\ pc' = "exit_manager"
    /\ left_by' = why
    /\ exc' = e

\* Faulty variant of SubmitStep: the while test is i <= max_steps.
SubmitStep_OffByOne ==
    /\ pc = "loop"
    /\ i <= MaxSteps
    /\ console.steps < MaxStepCalls
    /\ console' = [console EXCEPT !.steps = @ + 1]
    /\ step_future' = "running"
    /\ pc' = "await_step"
    /\ UNCHANGED <<i, match_started, gamestate, controller_inputs,
                   ego_controller, opponent_controller, console_logger, episode_stats,
                   sigint_handler, exc, left_by, yields, menu_calls, teardown, outcome,
                   exit_code>>
    /\ UNCHANGED <<epVars, fnVars>>

\* while i < self.max_steps: future = executor.submit(self.console.step)
SubmitStep ==
    /\ pc = "loop"
    /\ i < MaxSteps
    /\ console.steps < MaxStepCalls
    /\ console' = [console EXCEPT !.steps = @ + 1]
    /\ step_future' = "running"
    /\ pc' = "await_step"
    /\ UNCHANGED <<i, match_started, gamestate, controller_inputs,
                   ego_controller, opponent_controller, console_logger, episode_stats,
                   sigint_handler, exc, left_by, yields, menu_calls, teardown, outcome,
                   exit_code>>
    /\ UNCHANGED <<epVars, fnVars>>

\* while i < self.max_steps is false: the loop ends.
LoopExhausted ==
    /\ pc = "loop"
    /\ ~(i < MaxSteps)
    /\ LeaveLoop("max_steps", "none")
    /\ UNCHANGED <<i, match_started, gamestate, controller_inputs, console, step_future,
                   ego_controller, opponent_controller, console_logger, episode_stats,
                   sigint_handler, yields, menu_calls, teardown, outcome, exit_code>>
    /\ UNCHANGED <<epVars, fnVars>>

\* Faulty variant of StepReturnsNone: a None gamestate counts as a step.
StepReturnsNone_Counted ==
    /\ pc = "await_step"
    /\ step_future' = "none"
    /\ gamestate' = None
    /\ i' = i + 1
    /\ pc' = "loop"
    /\ UNCHANGED <<match_started, controller_inputs, console,
                   ego_controller, opponent_controller, console_logger, episode_stats,
                   sigint_handler, exc, left_by, yields, menu_calls, teardown, outcome,
                   exit_code>>
    /\ UNCHANGED <<epVars, fnVars>>

\* future.result(timeout=self.console_timeout) returns None: continue.
StepReturnsNone ==
    /\ pc = "await_step"
    /\ step_future' = "none"
    /\ gamestate' = None
    /\ pc' = "loop"
    /\ UNCHANGED <<i, match_started, controller_inputs, console,
                   ego_controller, opponent_controller, console_logger, episode_stats,
                   sigint_handler, exc, left_by, yields, menu_calls, teardown, outcome,
                   exit_code>>
    /\ UNCHANGED <<epVars, fnVars>>

\* run_game's arguments to self_play_menu_helper: FOX, FOX, BATTLEFIELD.
RunGameMenuCalls(gs) == SelfPlayMenuHelper(gs, Some("FOX"), Some("BATTLEFIELD"))

\* Faulty variant of StepReturnsMenu: no break when the match had started.
StepReturnsMenu_NoBreak(gs) ==
    /\ pc = "await_step"
    /\ gs.menu_state \notin InGameStates
    /\ step_future' = "none"
    /\ gamestate' = Some(gs)
    /\ menu_calls' = menu_calls + 1
    /\ ego_controller' =
          AfterMenuCalls(ego_controller, "controller_1", RunGameMenuCalls(gs))
    /\ opponent_controller' =
          AfterMenuCalls(opponent_controller, "controller_2", RunGameMenuCalls(gs))
    /\ pc' = "loop"
    /\ UNCHANGED <<i, match_started, controller_inputs, console, console_logger,
                   episode_stats, sigint_handler, yields, teardown, outcome, exit_code,
                   left_by, exc>>
    /\ UNCHANGED <<epVars, fnVars>>

\* future.result returns a gamestate whose menu_state is not IN_GAME or
\* SUDDEN_DEATH: break if the match had started, else self_play_menu_helper
\* with controller_1 = ego_controller and controller_2 = opponent_controller.
StepReturnsMenu(gs) ==
    /\ pc = "await_step"
    /\ gs.menu_state \notin InGameStates
    /\ step_future' = "none"
    /\ gamestate' = Some(gs)
    /\ IF match_started
       THEN /\ LeaveLoop("match_end", "none")
            /\ UNCHANGED <<menu_calls, ego_controller, opponent_controller>>
       ELSE /\ menu_calls' = menu_calls + 1
            /\ ego_controller' =
                  AfterMenuCalls(ego_controller, "controller_1", RunGameMenuCalls(gs))
            /\ opponent_controller' =
                  AfterMenuCalls(opponent_controller, "controller_2", RunGameMenuCalls(gs))
            /\ pc' = "loop"
            /\ UNCHANGED <<left_by, exc>>
    /\ UNCHANGED <<i, match_started, controller_inputs, console, console_logger,
                   episode_stats, sigint_handler, yields, teardown, outcome, exit_code>>
    /\ UNCHANGED <<epVars, fnVars>>

\* future.result returns an IN_GAME or SUDDEN_DEATH gamestate: match_started
\* is set and the gamestate is yielded; the generator is suspended.
StepReturnsInGame(gs) ==
    /\ pc = "await_step"
    /\ gs.menu_state \in InGameStates
    /\ step_future' = "none"
    /\ gamestate' = Some(gs)
    /\ match_started' = TRUE
    /\ yields' = yields + 1
    /\ pc' = "yielded"
    /\ UNCHANGED <<i, controller_inputs, console,
                   ego_controller, opponent_controller, console_logger, episode_stats,
                   sigint_handler, exc, left_by, menu_calls, teardown, outcome, exit_code>>
    /\ UNCHANGED <<epVars, fnVars>>

\* Faulty variant of StepTimesOut: the timeout is logged and the loop continues.
StepTimesOut_Retry ==
    /\ pc = "await_step"
    /\ pc' = "loop"
    /\ UNCHANGED <<i, match_started, gamestate, controller_inputs, console, step_future,
                   ego_controller, opponent_controller, console_logger, episode_stats,
                   sigint_handler, exc, left_by, yields, menu_calls, teardown, outcome,
                   exit_code>>
    /\ UNCHANGED <<epVars, fnVars>>

\* future.result raises concurrent.futures.TimeoutError: logged and re-raised.
\* The step call is not cancelled: its future stays running.
StepTimesOut ==
    /\ pc = "await_step"
    /\ LeaveLoop("timeout", "TimeoutError")
    /\ UNCHANGED <<i, match_started, gamestate, controller_inputs, console, step_future,
                   ego_controller, opponent_controller, console_logger, episode_stats,
                   sigint_handler, yields, menu_calls, teardown, outcome, exit_code>>
    /\ UNCHANGED <<epVars, fnVars>>

\* console.step() raises: future.result re-raises its exception.
StepRaises ==
    /\ pc = "await_step"
    /\ step_future' = "none"
    /\ LeaveLoop("exception", "Exception")
    /\ UNCHANGED <<i, match_started, gamestate, controller_inputs, console,
                   ego_controller, opponent_controller, console_logger, episode_stats,
                   sigint_handler, yields, menu_calls, teardown, outcome, exit_code>>
    /\ UNCHANGED <<epVars, fnVars>>

\* SIGINT while the generator runs inside console_manager: signal_handler
\* raises KeyboardInterrupt in the loop.  A submitted step keeps running.
\* (A signal or an exception inside console_manager's finally block itself is
\* not modelled: the claims are about the ways the loop is left.)
KeyboardInterrupt ==
    /\ pc \in {"loop", "await_step"}
    /\ sigint_handler = "console_manager"
    /\ LeaveLoop("interrupt", "KeyboardInterrupt")
    /\ UNCHANGED <<i, match_started, gamestate, controller_inputs, console, step_future,
                   ego_controller, opponent_controller, console_logger, episode_stats,
                   sigint_handler, yields, menu_calls, teardown, outcome, exit_code>>
    /\ UNCHANGED <<epVars, fnVars>>

\* Faulty variant of Resume: the inputs are sent to the opponent's controller.
Resume_ToOpponent(d) ==
    /\ pc = "yielded"
    /\ controller_inputs' = d
    /\ opponent_controller' =
          IF d = None THEN opponent_controller
          ELSE Issue(opponent_controller, SendControllerInputs(d[1]))
    /\ episode_stats' = StatsUpdate(episode_stats, gamestate[1])
    /\ console_logger' =
          IF console_logger.enabled
          THEN [console_logger EXCEPT !.writeframes = @ + 1]
          ELSE console_logger
    /\ i' = i + 1
    /\ pc' = "loop"
    /\ UNCHANGED <<match_started, gamestate, console, step_future, ego_controller,
                   sigint_handler, exc, left_by, yields, menu_calls, teardown, outcome,
                   exit_code>>
    /\ UNCHANGED <<epVars, fnVars>>

\* Faulty variant of Resume: a None decision skips the rest of the iteration.
Resume_NoneSkipsUpdate(d) ==
    /\ pc = "yielded"
    /\ controller_inputs' = d
    /\ ego_controller' =
          IF d = None THEN ego_controller
          ELSE Issue(ego_controller, SendControllerInputs(d[1]))
    /\ episode_stats' =
          IF d = None THEN episode_stats ELSE StatsUpdate(episode_stats, gamestate[1])
    /\ console_logger' =
          IF console_logger.enabled /\ d # None
          THEN [console_logger EXCEPT !.writeframes = @ + 1]
          ELSE console_logger
    /\ i' = IF d = None THEN i ELSE i + 1
    /\ pc' = "loop"
    /\ UNCHANGED <<match_started, gamestate, console, step_future, opponent_controller,
                   sigint_handler, exc, left_by, yields, menu_calls, teardown, outcome,
                   exit_code>>
    /\ UNCHANGED <<epVars, fnVars>>

\* The caller resumes the generator with d (optional controller inputs):
\* send_controller_inputs on the ego controller unless d is None, then
\* episode_stats.update, console_logger.writeframe, i += 1.
Resume(d) ==
    /\ pc = "yielded"
    /\ controller_inputs' = d
    /\ ego_controller' =
          IF d = None THEN ego_controller
          ELSE Issue(ego_controller, SendControllerInputs(d[1]))
    /\ episode_stats' = StatsUpdate(episode_stats, gamestate[1])
    /\ console_logger' =
          IF console_logger.enabled
          THEN [console_logger EXCEPT !.writeframes = @ + 1]
          ELSE console_logger
    /\ i' = i + 1
    /\ pc' = "loop"
    /\ UNCHANGED <<match_started, gamestate, console, step_future, opponent_controller,
                   sigint_handler, exc, left_by, yields, menu_calls, teardown, outcome,
                   exit_code>>
    /\ UNCHANGED <<epVars, fnVars>>

\* The caller resumes the generator with inputs d and send_controller_inputs
\* raises (a key d lacks, a broken pipe): the loop is left before
\* episode_stats.update and i += 1.  Operations not flushed are not recorded.
ResumeRaises(d) ==
    /\ pc = "yielded"
    /\ controller_inputs' = Some(d)
    /\ LeaveLoop("exception", "Exception")
    /\ UNCHANGED <<i, match_started, gamestate, console, step_future,
                   ego_controller, opponent_controller, console_logger, episode_stats,
                   sigint_handler, yields, menu_calls, teardown, outcome, exit_code>>
    /\ UNCHANGED <<epVars, fnVars>>

\* The caller closes the suspended generator: GeneratorExit is raised at the yield.
Close ==
    /\ pc = "yielded"
    /\ LeaveLoop("close", "GeneratorExit")
    /\ UNCHANGED <<i, match_started, gamestate, controller_inputs, console, step_future,
                   ego_controller, opponent_controller, console_logger, episode_stats,
                   sigint_handler, yields, menu_calls, teardown, outcome, exit_code>>
    /\ UNCHANGED <<epVars, fnVars>>

(***************************************************************************)
(* console_manager: the except clauses and the finally block.              *)
(***************************************************************************)
\* Faulty variant of ManagerCatches: the except TimeoutError clause re-raises.
ManagerCatches_NoTimeout(e) == e \in {"KeyboardInterrupt", "Exception"}

\* Faulty variant of ManagerCatches: there is no except KeyboardInterrupt clause.
ManagerCatches_NoInterrupt(e) == e \in {"TimeoutError", "Exception"}

\* except KeyboardInterrupt / except TimeoutError / except Exception
ManagerCatches(e) == e \in {"KeyboardInterrupt", "TimeoutError", "Exception"}

\* Faulty variant of FinallyBlock: the console is stopped before the log is written.
FinallyBlock_StopFirst == <<"stop", "restore_sigint", "writelog">>

\* The statements of the finally block, in order; writelog only with a logger.
FinallyBlock == <<"writelog", "restore_sigint", "stop">>

RECURSIVE FinallyOps(_, _)
FinallyOps(logger, k) ==
    IF k > Len(FinallyBlock) THEN <<>>
    ELSE IF FinallyBlock[k] = "writelog" /\ ~logger.enabled THEN FinallyOps(logger, k + 1)
    ELSE <<FinallyBlock[k]>> \o FinallyOps(logger, k + 1)

Count(seq, x) == Cardinality({k \in DOMAIN seq : seq[k] = x})

\* The with block of console_manager is left, normally or by exception exc.
ExitConsoleManager ==
    /\ pc = "exit_manager"
    /\ exc' = IF ManagerCatches(exc) THEN "none" ELSE exc
    /\ teardown' = teardown \o FinallyOps(console_logger, 1)
    /\ console_logger' =
          [console_logger EXCEPT !.writelogs = @ + Count(FinallyOps(console_logger, 1), "writelog")]
    /\ sigint_handler' =
          IF Count(FinallyOps(console_logger, 1), "restore_sigint") > 0
          THEN "original" ELSE sigint_handler
    /\ console' =
          [console EXCEPT !.stops = @ + Count(FinallyOps(console_logger, 1), "stop"),
                          !.running = FALSE]
    /\ pc' = "exit_executor"
    /\ UNCHANGED <<i, match_started, gamestate, controller_inputs, step_future,
                   ego_controller, opponent_controller, episode_stats,
                   left_by, yields, menu_calls, outcome, exit_code>>
    /\ UNCHANGED <<epVars, fnVars>>

\* The abandoned console.step() call returns in the executor's thread.
AbandonedStepReturns ==
    /\ pc \in {"exit_manager", "exit_executor"}
    /\ step_future = "running"
    /\ step_future' = "done"
    /\ UNCHANGED <<pc, i, match_started, gamestate, controller_inputs, console,
                   ego_controller, opponent_controller, console_logger, episode_stats,
                   sigint_handler, exc, left_by, yields, menu_calls, teardown, outcome,
                   exit_code>>
    /\ UNCHANGED <<epVars, fnVars>>

\* ThreadPoolExecutor.__exit__: shutdown(wait=True) returns once the worker
\* thread has finished; then the generator returns, or the exception that
\* console_manager did not catch leaves it.
ExitExecutor ==
    /\ pc = "exit_executor"
    /\ step_future # "running"
    /\ pc' = "done"
    /\ outcome' = IF exc = "none" THEN "returned" ELSE "raised"
    /\ UNCHANGED <<i, match_started, gamestate, controller_inputs, console, step_future,
                   ego_controller, opponent_controller, console_logger, episode_stats,
                   sigint_handler, exc, left_by, yields, menu_calls, teardown, exit_code>>
    /\ UNCHANGED <<epVars, fnVars>>

NextGame ==
    \/ \E ok \in BOOLEAN : ConnectConsole(ok)
    \/ \E ok \in BOOLEAN : ConnectEgo(ok)
    \/ \E ok \in BOOLEAN : ConnectOpponent(ok)
    \/ SubmitStep
    \/ LoopExhausted
    \/ StepReturnsNone
    \/ \E gs \in Gamestates : StepReturnsMenu(gs)
    \/ \E gs \in Gamestates : StepReturnsInGame(gs)
    \/ StepTimesOut
    \/ StepRaises
    \/ KeyboardInterrupt
    \/ \E d \in {None} \cup {Some(x) : x \in ControllerInputs} : Resume(d)
    \/ \E d \in ControllerInputs : ResumeRaises(d)
    \/ Close
    \/ ExitConsoleManager
    \/ AbandonedStepReturns
    \/ ExitExecutor

(***************************************************************************)
(* model_server (the inference worker process)                             *)
(***************************************************************************)
\* The features extract_and_append_gamestate takes from a gamestate, as one
\* number (1..3); 0 is the value pad_tensors pads with.
Features(gs) ==
    IF gs.menu_state = "SUDDEN_DEATH" THEN 3
    ELSE IF gs.p1_percent > 0 THEN 2
    ELSE 1

\* Faulty variant of DequeAppend: a deque without maxlen.
DequeAppend_Unbounded(dq, x, maxlen) == Append(dq, x)

\* deque(maxlen=input_len).append(x)
DequeAppend(dq, x, maxlen) ==
    IF Len(dq) >= maxlen THEN Tail(dq) \o <<x>> ELSE Append(dq, x)

\* extract_and_append_gamestate(gamestate, frame_data): one value per feature
\* is appended to that feature's deque (the per-feature deques move in step
\* and are kept as one).
ExtractAndAppendGamestate(fd, gs) == DequeAppend(fd, Features(gs), InputLen)

\* pad_tensors(td, length): zeros on the left up to length.
PadTensors(td, length) ==
    IF Len(td) < length
    THEN [k \in 1..(length - Len(td)) |-> 0] \o td
    ELSE td

\* postprocess_outputs(model(preprocess_inputs(window))[:, -1]): the model is
\* a function of the window; here the button follows the newest frame, the
\* main stick the newest and the c stick the oldest frame of the window.
Policy(window) ==
    [main_stick |-> <<window[Len(window)] % 2, window[Len(window)] \div 2>>,
     c_stick |-> <<window[1] % 2, window[1] \div 2>>,
     shoulder |-> None,
     button |-> INCLUDED_BUTTONS[2 * window[Len(window)]]]

WorkerAlive == ml_process \in {"waiting", "computing"}

\* Faulty variant of ModelServerGet: the sentinel is dropped and the loop goes on.
ModelServerGet_IgnoresSentinel ==
    /\ ml_process = "waiting"
    /\ input_queue # <<>>
    /\ input_queue' = Tail(input_queue)
    /\ worker_gamestate' = Head(input_queue)
    /\ IF Head(input_queue) = None
       THEN /\ ml_process' = "waiting"
            /\ UNCHANGED <<frame_data, consumed>>
       ELSE /\ ml_process' = "computing"
            /\ frame_data' = DequeAppend(frame_data, Features(Head(input_queue)[1]), InputLen)
            /\ consumed' = Append(consumed, Head(input_queue)[1])
    /\ UNCHANGED <<ep_pc, ep_i, ep_match_started, ep_gamestate, ep_inputs, ep_console,
                   controller_1, controller_2, output_queue, ep_exc, ep_left_by,
                   ep_outcome, published>>
    /\ UNCHANGED <<gameVars, fnVars>>

\* gamestate = input_queue.get(); break on the sentinel, else
\* extract_and_append_gamestate(gamestate, frame_data).
ModelServerGet ==
    /\ ml_process = "waiting"
    /\ input_queue # <<>>
    /\ input_queue' = Tail(input_queue)
    /\ worker_gamestate' = Head(input_queue)
    /\ IF Head(input_queue) = None
       THEN /\ ml_process' = "exited"
            /\ UNCHANGED <<frame_data, consumed>>
       ELSE /\ ml_process' = "computing"
            /\ frame_data' = ExtractAndAppendGamestate(frame_data, Head(input_queue)[1])
            /\ consumed' = Append(consumed, Head(input_queue)[1])
    /\ UNCHANGED <<ep_pc, ep_i, ep_match_started, ep_gamestate, ep_inputs, ep_console,
                   controller_1, controller_2, output_queue, ep_exc, ep_left_by,
                   ep_outcome, published>>
    /\ UNCHANGED <<gameVars, fnVars>>

\* Faulty variant of ModelServerPut: the decision is put twice.
ModelServerPut_Twice ==
    /\ ml_process = "computing"
    /\ output_queue' = output_queue \o <<Policy(PadTensors(frame_data, InputLen)),
                                         Policy(PadTensors(frame_data, InputLen))>>
    /\ published' = published \o <<Policy(PadTensors(frame_data, InputLen)),
                                   Policy(PadTensors(frame_data, InputLen))>>
    /\ ml_process' = "waiting"
    /\ UNCHANGED <<ep_pc, ep_i, ep_match_started, ep_gamestate, ep_inputs, ep_console,
                   controller_1, controller_2, input_queue, worker_gamestate, frame_data,
                   ep_exc, ep_left_by, ep_outcome, consumed>>
    /\ UNCHANGED <<gameVars, fnVars>>

\* pad_tensors, preprocess_inputs, model, postprocess_outputs, output_queue.put
ModelServerPut ==
    /\ ml_process = "computing"
    /\ output_queue' = Append(output_queue, Policy(PadTensors(frame_data, InputLen)))
    /\ published' = Append(published, Policy(PadTensors(frame_data, InputLen)))
    /\ ml_process' = "waiting"
    /\ UNCHANGED <<ep_pc, ep_i, ep_match_started, ep_gamestate, ep_inputs, ep_console,
                   controller_1, controller_2, input_queue, worker_gamestate, frame_data,
                   ep_exc, ep_left_by, ep_outcome, consumed>>
    /\ UNCHANGED <<gameVars, fnVars>>

\* The worker process dies (an exception in model_server, a signal).
ModelServerCrash ==
    /\ WorkerAlive
    /\ ml_process' = "crashed"
    /\ UNCHANGED <<ep_pc, ep_i, ep_match_started, ep_gamestate, ep_inputs, ep_console,
                   controller_1, controller_2, input_queue, output_queue,
                   worker_gamestate, frame_data, ep_exc, ep_left_by, ep_outcome,
                   consumed, published>>
    /\ UNCHANGED <<gameVars, fnVars>>

(***************************************************************************)
(* run_episode                                                             *)
(*                                                                         *)
(* ep_pc: "connect" (queues made, worker started), "loop" (at the while    *)
(* test), "await_decision" (blocked in output_queue.get), "finally" (the   *)
(* loop's finally clause), "join" (in ml_process.join), "exit_manager"     *)
(* (leaving console_manager), "done".                                      *)
(***************************************************************************)
InitEp ==
    /\ ep_pc = "connect"
    /\ ep_i = 0
    /\ ep_match_started = FALSE
    /\ ep_gamestate = None
    /\ ep_inputs = None
    /\ ep_console = [running |-> FALSE, connected |-> FALSE, steps |-> 0, stops |-> 0]
    /\ controller_1 = NewController
    /\ controller_2 = NewController
    /\ input_queue = <<>>
    /\ output_queue = <<>>
    /\ ml_process = "waiting"
    /\ worker_gamestate = None
    /\ frame_data = <<>>
    /\ ep_exc = "none"
    /\ ep_left_by = "none"
    /\ ep_outcome = "running"
    /\ consumed = <<>>
    /\ published = <<>>

\* console.run, console.connect, controller_1.connect, controller_2.connect:
\* the first connect that returns false (failed) ends in sys.exit(-1).
EpConnect(failed) ==
    /\ ep_pc = "connect"
    /\ ep_console' = [ep_console EXCEPT !.running = TRUE, !.connected = (failed # "console")]
    /\ controller_1' =
          [controller_1 EXCEPT !.connected = (failed \notin {"console", "controller_1"})]
    /\ controller_2' = [controller_2 EXCEPT !.connected = (failed = "none")]
    /\ IF failed = "none"
       THEN ep_pc' = "loop" /\ UNCHANGED ep_outcome
       ELSE ep_pc' = "done" /\ ep_outcome' = "exited"
    /\ UNCHANGED <<ep_i, ep_match_started, ep_gamestate, ep_inputs, input_queue,
                   output_queue, ml_process, worker_gamestate, frame_data, ep_exc,
                   ep_left_by, consumed, published>>
    /\ UNCHANGED <<gameVars, fnVars>>

EpLeaveLoop(why, e) ==
    /\ ep_pc' = "finally"
    /\ ep_left_by' = why
    /\ ep_exc' = e

EpCanStep ==
    /\ ep_pc = "loop"
    /\ ep_i < EpisodeStepLimit
    /\ ep_console.steps < EpMaxStepCalls

\* console.step() returns None: break.
EpStepReturnsNone ==
    /\ EpCanStep
    /\ ep_console' = [ep_console EXCEPT !.steps = @ + 1]
    /\ ep_gamestate' = None
    /\ EpLeaveLoop("none_frame", "none")
    /\ UNCHANGED <<ep_i, ep_match_started, ep_inputs, controller_1, controller_2,
                   input_queue, output_queue, ml_process, worker_gamestate, frame_data,
                   ep_outcome, consumed, published>>
    /\ UNCHANGED <<gameVars, fnVars>>

\* console.step() returns a menu gamestate: break if the match had started,
\* else self_play_menu_helper.
EpStepReturnsMenu(gs) ==
    /\ EpCanStep
    /\ gs.menu_state \notin InGameStates
    /\ ep_console' = [ep_console EXCEPT !.steps = @ + 1]
    /\ ep_gamestate' = Some(gs)
    /\ IF ep_match_started
       THEN /\ EpLeaveLoop("match_end", "none")
            /\ UNCHANGED <<controller_1, controller_2>>
       ELSE /\ controller_1' = AfterMenuCalls(controller_1, "controller_1", RunGameMenuCalls(gs))
            /\ controller_2' = AfterMenuCalls(controller_2, "controller_2", RunGameMenuCalls(gs))
            /\ UNCHANGED <<ep_pc, ep_left_by, ep_exc>>
    /\ UNCHANGED <<ep_i, ep_match_started, ep_inputs, input_queue, output_queue,
                   ml_process, worker_gamestate, frame_data, ep_outcome, consumed,
                   published>>
    /\ UNCHANGED <<gameVars, fnVars>>

\* Faulty variant of EpStepReturnsInGame: the loop goes on without the decision.
EpStepReturnsInGame_Pipelined(gs) ==
    /\ EpCanStep
    /\ gs.menu_state \in InGameStates
    /\ ep_console' = [ep_console EXCEPT !.steps = @ + 1]
    /\ ep_gamestate' = Some(gs)
    /\ ep_match_started' = TRUE
    /\ input_queue' = Append(input_queue, Some(gs))
    /\ ep_i' = ep_i + 1
    /\ UNCHANGED <<ep_pc, ep_inputs, controller_1, controller_2, output_queue,
                   ml_process, worker_gamestate, frame_data, ep_exc, ep_left_by,
                   ep_outcome, consumed, published>>
    /\ UNCHANGED <<gameVars, fnVars>>

\* console.step() returns an in-game gamestate: input_queue.put(gamestate),
\* then the loop blocks in output_queue.get().
EpStepReturnsInGame(gs) ==
    /\ EpCanStep
    /\ gs.menu_state \in InGameStates
    /\ ep_console' = [ep_console EXCEPT !.steps = @ + 1]
    /\ ep_gamestate' = Some(gs)
    /\ ep_match_started' = TRUE
    /\ input_queue' = Append(input_queue, Some(gs))
    /\ ep_pc' = "await_decision"
    /\ UNCHANGED <<ep_i, ep_inputs, controller_1, controller_2, output_queue,
                   ml_process, worker_gamestate, frame_data, ep_exc, ep_left_by,
                   ep_outcome, consumed, published>>
    /\ UNCHANGED <<gameVars, fnVars>>

\* while i < 10000 is false: the loop ends.
EpLoopExhausted ==
    /\ ep_pc = "loop"
    /\ ~(ep_i < EpisodeStepLimit)
    /\ EpLeaveLoop("max_steps", "none")
    /\ UNCHANGED <<ep_i, ep_match_started, ep_gamestate, ep_inputs, ep_console,
                   controller_1, controller_2, input_queue, output_queue, ml_process,
                   worker_gamestate, frame_data, ep_outcome, consumed, published>>
    /\ UNCHANGED <<gameVars, fnVars>>

\* controller_inputs = output_queue.get(); send_controller_inputs; i += 1
EpGetDecision ==
    /\ ep_pc = "await_decision"
    /\ output_queue # <<>>
    /\ output_queue' = Tail(output_queue)
    /\ ep_inputs' = Some(Head(output_queue))
    /\ controller_1' = Issue(controller_1, SendControllerInputs(Head(output_queue)))
    /\ ep_i' = ep_i + 1
    /\ ep_pc' = "loop"
    /\ UNCHANGED <<ep_match_started, ep_gamestate, ep_console, controller_2, input_queue,
                   ml_process, worker_gamestate, frame_data, ep_exc, ep_left_by,
                   ep_outcome, consumed, published>>
    /\ UNCHANGED <<gameVars, fnVars>>

\* SIGINT in the loop, also while it is blocked in output_queue.get().
EpKeyboardInterrupt ==
    /\ ep_pc \in {"loop", "await_decision"}
    /\ EpLeaveLoop("interrupt", "KeyboardInterrupt")
    /\ UNCHANGED <<ep_i, ep_match_started, ep_gamestate, ep_inputs, ep_console,
                   controller_1, controller_2, input_queue, output_queue, ml_process,
                   worker_gamestate, frame_data, ep_outcome, consumed, published>>
    /\ UNCHANGED <<gameVars, fnVars>>

\* console.step() raises.
EpStepRaises ==
    /\ EpCanStep
    /\ ep_console' = [ep_console EXCEPT !.steps = @ + 1]
    /\ EpLeaveLoop("exception", "Exception")
    /\ UNCHANGED <<ep_i, ep_match_started, ep_gamestate, ep_inputs,
                   controller_1, controller_2, input_queue, output_queue, ml_process,
                   worker_gamestate, frame_data, ep_outcome, consumed, published>>
    /\ UNCHANGED <<gameVars, fnVars>>

\* finally: input_queue.put(None), then ml_process.join(timeout=1.0) begins.
EpFinallySentinel ==
    /\ ep_pc = "finally"
    /\ input_queue' = Append(input_queue, None)
    /\ ep_pc' = "join"
    /\ UNCHANGED <<ep_i, ep_match_started, ep_gamestate, ep_inputs, ep_console,
                   controller_1, controller_2, output_queue, ml_process,
                   worker_gamestate, frame_data, ep_exc, ep_left_by, ep_outcome,
                   consumed, published>>
    /\ UNCHANGED <<gameVars, fnVars>>

\* Faulty variant of EpJoinReturns: a worker still alive after the join is left alone.
EpJoinReturns_NoTerminate ==
    /\ ep_pc = "join"
    /\ ep_pc' = "exit_manager"
    /\ UNCHANGED <<ep_i, ep_match_started, ep_gamestate, ep_inputs, ep_console,
                   controller_1, controller_2, input_queue, output_queue, ml_process,
                   worker_gamestate, frame_data, ep_exc, ep_left_by, ep_outcome,
                   consumed, published>>
    /\ UNCHANGED <<gameVars, fnVars>>

\* join returns (the worker ended, or a second passed);
\* if ml_process.is_alive(): ml_process.terminate()
EpJoinReturns ==
    /\ ep_pc = "join"
    /\ ml_process' = IF WorkerAlive THEN "terminated" ELSE ml_process
    /\ ep_pc' = "exit_manager"
    /\ UNCHANGED <<ep_i, ep_match_started, ep_gamestate, ep_inputs, ep_console,
                   controller_1, controller_2, input_queue, output_queue,
                   worker_gamestate, frame_data, ep_exc, ep_left_by, ep_outcome,
                   consumed, published>>
    /\ UNCHANGED <<gameVars, fnVars>>

\* eval_closed_loop's console_manager: except KeyboardInterrupt only;
\* finally console.stop().
EpExitConsoleManager ==
    /\ ep_pc = "exit_manager"
    /\ ep_exc' = IF ep_exc = "KeyboardInterrupt" THEN "none" ELSE ep_exc
    /\ ep_console' = [ep_console EXCEPT !.stops = @ + 1, !.running = FALSE]
    /\ ep_pc' = "done"
    /\ ep_outcome' = IF ep_exc \in {"none", "KeyboardInterrupt"} THEN "returned" ELSE "raised"
    /\ UNCHANGED <<ep_i, ep_match_started, ep_gamestate, ep_inputs,
                   controller_1, controller_2, input_queue, output_queue, ml_process,
                   worker_gamestate, frame_data, ep_left_by, consumed, published>>
    /\ UNCHANGED <<gameVars, fnVars>>

NextEp ==
    \/ \E f \in {"none", "console", "controller_1", "controller_2"} : EpConnect(f)
    \/ EpStepReturnsNone
    \/ \E gs \in Gamestates : EpStepReturnsMenu(gs)
    \/ \E gs \in Gamestates : EpStepReturnsInGame(gs)
    \/ EpLoopExhausted
    \/ EpGetDecision
    \/ EpKeyboardInterrupt
    \/ EpStepRaises
    \/ EpFinallySentinel
    \/ EpJoinReturns
    \/ EpExitConsoleManager
    \/ ModelServerGet
    \/ ModelServerPut
    \/ ModelServerCrash

(***************************************************************************)
(* self_play_menu_helper and send_controller_inputs called directly on two *)
(* controllers, in any order, with any configuration and any arguments.    *)
(***************************************************************************)
\* The values inputs["button"] may take: the canonical names and one that is not.
ButtonNames == { INCLUDED_BUTTONS[k] : k \in 1..Len(INCLUDED_BUTTONS) } \cup {"BUTTON_Y"}

\* The inputs send_controller_inputs is called with.
AnyControllerInputs ==
    [main_stick : {<<0, 1>>}, c_stick : {<<1, 0>>}, shoulder : {None, Some(1)},
     button : ButtonNames]

InitHelpers ==
    /\ cfg_character_2 \in {None, Some("FOX")}
    /\ cfg_stage_selected \in {None, Some("BATTLEFIELD")}
    /\ menu_controller_1 = NewController
    /\ menu_controller_2 = NewController
    /\ menu_gamestate = None
    /\ sent_inputs = None
    /\ helper_calls = 0

\* The helpers' variables while another program runs.
HelpersIdle ==
    /\ InitHelpers
    /\ cfg_character_2 = None
    /\ cfg_stage_selected = None

\* self_play_menu_helper(gs, controller_1, controller_2, character_1,
\* character_2, stage_selected).
CallMenuHelper(gs) ==
    /\ helper_calls < MaxHelperCalls
    /\ LET calls == SelfPlayMenuHelper(gs, cfg_character_2, cfg_stage_selected) IN
         /\ menu_controller_1' = AfterMenuCalls(menu_controller_1, "controller_1", calls)
         /\ menu_controller_2' = AfterMenuCalls(menu_controller_2, "controller_2", calls)
    /\ menu_gamestate' = Some(gs)
    /\ sent_inputs' = None
    /\ helper_calls' = helper_calls + 1
    /\ UNCHANGED <<cfg_character_2, cfg_stage_selected>>
    /\ UNCHANGED <<gameVars, epVars, encVars, buttonVars, prepVars, miscVars>>

\* send_controller_inputs(controller, inputs), controller named by name.
CallSendControllerInputs(name, inputs) ==
    /\ helper_calls < MaxHelperCalls
    /\ menu_controller_1' =
          IF name = "controller_1"
          THEN Issue(menu_controller_1, SendControllerInputs(inputs))
          ELSE menu_controller_1
    /\ menu_controller_2' =
          IF name = "controller_2"
          THEN Issue(menu_controller_2, SendControllerInputs(inputs))
          ELSE menu_controller_2
    /\ sent_inputs' = Some(inputs)
    /\ menu_gamestate' = None
    /\ helper_calls' = helper_calls + 1
    /\ UNCHANGED <<cfg_character_2, cfg_stage_selected>>
    /\ UNCHANGED <<gameVars, epVars, encVars, buttonVars, prepVars, miscVars>>

NextHelpers ==
    \/ \E gs \in Gamestates : CallMenuHelper(gs)
    \/ \E name \in {"controller_1", "controller_2"}, inputs \in AnyControllerInputs :
          CallSendControllerInputs(name, inputs)

(***************************************************************************)
(* convert_target_to_one_hot.  An array is a sequence of rows and a row a  *)
(* sequence of bits; numpy's column d is column d + 1 here, so the "no     *)
(* press" column (-1 in numpy) is column D + 1.                            *)
(***************************************************************************)
ZeroRow(n) == [d \in 1..n |-> 0]

SetBit(row, d) == [row EXCEPT ![d] = 1]

\* The smallest element of a non-empty set of integers.
MinOf(S) == CHOOSE x \in S : \A y \in S : x <= y

\* The columns of button_presses (np.argwhere(array == 1)) whose time step is t.
ButtonsAt(array, t) == { d \in 1..Len(array[t]) : array[t][d] = 1 }

\* Faulty variant of NoAndSinglePress: a single button that was already
\* pressed at the time step before is reported as "no press".
NoAndSinglePress_IgnoresHeld(array) ==
    [t \in 1..Len(array) |->
        LET D == Len(array[t])
            buttons == ButtonsAt(array, t)
        IN  IF buttons = {} THEN SetBit(ZeroRow(D + 1), D + 1)
            ELSE IF Cardinality(buttons) = 1
            THEN IF t > 1 /\ buttons \subseteq ButtonsAt(array, t - 1)
                 THEN SetBit(ZeroRow(D + 1), D + 1)
                 ELSE SetBit(ZeroRow(D + 1), MinOf(buttons))
            ELSE ZeroRow(D + 1)]

\* one_hot after the "no button presses" and "single button press" assignments:
\* a row of a time step with several presses is still all zeros.
NoAndSinglePress(array) ==
    [t \in 1..Len(array) |->
        LET D == Len(array[t])
            buttons == ButtonsAt(array, t)
        IN  IF buttons = {} THEN SetBit(ZeroRow(D + 1), D + 1)
            ELSE IF Cardinality(buttons) = 1 THEN SetBit(ZeroRow(D + 1), MinOf(buttons))
            ELSE ZeroRow(D + 1)]

\* The loop over multi_press_times, from time step t on.  held_buttons is
\* created once before the loop, set for the buttons of every multi-press time
\* step and never cleared; new_buttons[0] is the lowest new column.
RECURSIVE MultiPressLoop(_, _, _, _)
MultiPressLoop(array, t, held_buttons, one_hot) ==
    IF t > Len(array) THEN one_hot
    ELSE IF Cardinality(ButtonsAt(array, t)) <= 1
    THEN MultiPressLoop(array, t + 1, held_buttons, one_hot)
    ELSE LET buttons == ButtonsAt(array, t)
             new_buttons == buttons \ held_buttons
         IN  MultiPressLoop(array, t + 1, held_buttons \cup buttons,
                            IF new_buttons # {}
                            THEN [one_hot EXCEPT ![t] = SetBit(@, MinOf(new_buttons))]
                            ELSE one_hot)

\* held_buttons when the loop over multi_press_times has passed time step t:
\* the buttons of every multi-press time step up to t.
RECURSIVE HeldButtonsAfter(_, _)
HeldButtonsAfter(array, t) ==
    IF t = 0 THEN {}
    ELSE IF Cardinality(ButtonsAt(array, t)) <= 1
    THEN HeldButtonsAfter(array, t - 1)
    ELSE HeldButtonsAfter(array, t - 1) \cup ButtonsAt(array, t)

ConvertTargetToOneHot(array) == MultiPressLoop(array, 1, {}, NoAndSinglePress(array))

\* The (T, D) arrays of bits with T frames.
Arrays(T, D) == [1..T -> [1..D -> {0, 1}]]

InitEnc ==
    /\ target_array \in UNION { Arrays(T, NumButtons) : T \in 1..MaxFrames }
    /\ target_one_hot = None

EncIdle ==
    /\ target_array = <<>>
    /\ target_one_hot = None

\* convert_target_to_one_hot(target_array).
CallConvertTargetToOneHot ==
    /\ target_one_hot = None
    /\ target_one_hot' = Some(ConvertTargetToOneHot(target_array))
    /\ UNCHANGED target_array
    /\ UNCHANGED <<gameVars, epVars, helperVars, buttonVars, prepVars, miscVars>>

NextEnc == CallConvertTargetToOneHot

(***************************************************************************)
(* convert_target_button_to_one_hot, on a (B, T, D) array: a sequence of B *)
(* arrays as above.  Indices the code computes are numpy's, from 0.        *)
(***************************************************************************)
\* np.where(array[:, t] == 1)[0].flatten(): array[:, t] has shape (B, D), and
\* the first array np.where returns holds the index along the FIRST axis of
\* every set bit, in row-major order: the index of the batch row, one per bit.
CurrButtons(array, t) ==
    LET B == Len(array)
        D == Len(array[1][t])
        cells == [p \in 1..(B * D) |-> [b |-> ((p - 1) \div D) + 1, d |-> ((p - 1) % D) + 1]]
        set_cells == SelectSeq(cells, LAMBDA c : array[c.b][t][c.d] = 1)
    IN  [k \in 1..Len(set_cells) |-> set_cells[k].b - 1]

\* The column (numpy index) the code may set at time t, in every batch row.
\* set.pop() returns an arbitrary element of the set.
FrameChoices(array, t, held_buttons_set) ==
    LET curr_buttons == CurrButtons(array, t)
        curr_buttons_set == { curr_buttons[k] : k \in 1..Len(curr_buttons) }
    IN  IF curr_buttons_set = {} THEN {Len(array[1][t])}
        ELSE IF Len(curr_buttons) = 1 THEN {curr_buttons[1]}
        ELSE curr_buttons_set \ held_buttons_set

\* The results convert_target_button_to_one_hot(array) may return.
\* held_buttons_set is created empty and never changed.
ConvertTargetButtonToOneHot(array) ==
    LET B == Len(array)
        T == Len(array[1])
        D == Len(array[1][1])
        choices == { c \in [1..T -> 0..D] : \A t \in 1..T : c[t] \in FrameChoices(array, t, {}) }
    IN  { [b \in 1..B |-> [t \in 1..T |-> SetBit(ZeroRow(D + 1), c[t] + 1)]] : c \in choices }

InitButton ==
    /\ button_array \in UNION { [1..B -> Arrays(T, NumButtons)] :
                                  B \in 1..MaxBatch, T \in 1..MaxButtonFrames }
    /\ button_one_hot = None
    /\ button_one_hot_2 = None

ButtonIdle ==
    /\ button_array = <<>>
    /\ button_one_hot = None
    /\ button_one_hot_2 = None

\* convert_target_button_to_one_hot(button_array), called once and once more.
CallConvertTargetButtonToOneHot ==
    /\ button_one_hot_2 = None
    /\ \E r \in ConvertTargetButtonToOneHot(button_array) :
          IF button_one_hot = None
          THEN button_one_hot' = Some(r) /\ UNCHANGED button_one_hot_2
          ELSE button_one_hot_2' = Some(r) /\ UNCHANGED button_one_hot
    /\ UNCHANGED button_array
    /\ UNCHANGED <<gameVars, epVars, helperVars, encVars, prepVars, miscVars>>

NextButton == CallConvertTargetButtonToOneHot

(***************************************************************************)
(* Preprocessor: sample_from_episode and offset_features.  A tensor is a   *)
(* sequence of frames; the frame of feature f at raw index k of the        *)
(* episode is <<f, k>>, so that a frame names the place it was read from.  *)
(***************************************************************************)
\* The keys of ndarrays_by_feature.
FeatureNames == {"frame", "input", "target"}

\* The feature names a configuration may give an offset.
OffsetFeatureNames == {"input", "target"}

Abs(x) == IF x < 0 THEN -x ELSE x

Min(a, b) == IF a < b THEN a ELSE b

\* max(S, default=d) and min(S, default=d) of Python.
MaxDefault(S, d) == IF S = {} THEN d ELSE CHOOSE x \in S : \A y \in S : y <= x

MinDefault(S, d) == IF S = {} THEN d ELSE CHOOSE x \in S : \A y \in S : x <= y

\* seq[start:stop] of Python, start and stop numpy indices (from 0).
PySliceIndex(k, len) == IF k < 0 THEN Max(k + len, 0) ELSE Min(k, len)

PySlice(seq, start, stop) ==
    LET lo == PySliceIndex(start, Len(seq))
        hi == PySliceIndex(stop, Len(seq))
    IN  [k \in 1..Max(hi - lo, 0) |-> seq[lo + k]]

\* Preprocessor.__init__.
max_abs_offset ==
    MaxDefault({ Abs(frame_offsets_by_feature[f]) : f \in DOMAIN frame_offsets_by_feature }, 0)

min_offset ==
    MinDefault({ frame_offsets_by_feature[f] : f \in DOMAIN frame_offsets_by_feature }, 0)

trajectory_sampling_len == seq_len + max_abs_offset

\* frame_offsets_by_feature.get(feature_name, 0).
OffsetOf(feature_name) ==
    IF feature_name \in DOMAIN frame_offsets_by_feature
    THEN frame_offsets_by_feature[feature_name]
    ELSE 0

reference_frame_idx == Abs(Min(0, min_offset))

\* The episode: every ndarray has episode_len frames.
ndarrays_by_feature ==
    [f \in FeatureNames |-> [k \in 1..episode_len |-> <<f, k - 1>>]]

\* TensorDict(source, batch_size=(n,)) raises RuntimeError when a tensor of
\* source does not have n frames.
BatchSizeMismatch(source, n) == \E f \in DOMAIN source : Len(source[f]) # n

InitPrep ==
    /\ frame_offsets_by_feature \in
          UNION { [S -> (-MaxOffset)..MaxOffset] : S \in SUBSET OffsetFeatureNames }
    /\ seq_len \in 1..MaxSeqLen
    /\ episode_len \in 1..MaxEpisodeLen
    /\ sample_T = None
    /\ offset_features = None
    /\ prep_exc = "none"

PrepIdle ==
    /\ frame_offsets_by_feature = <<>>
    /\ seq_len = 0
    /\ episode_len = 0
    /\ sample_T = None
    /\ offset_features = None
    /\ prep_exc = "none"

\* sample_from_episode(ndarrays_by_feature, debug) with an episode of at least
\* trajectory_sampling_len frames; sample_index is random.randint's result.
SampleFromEpisode(debug, sample_index) ==
    /\ sample_T = None /\ prep_exc = "none"
    /\ episode_len >= trajectory_sampling_len
    /\ sample_index \in 0..(episode_len - trajectory_sampling_len)
    /\ debug => sample_index = 0
    /\ sample_T' = Some([f \in FeatureNames |->
                           PySlice(ndarrays_by_feature[f], sample_index,
                                   sample_index + trajectory_sampling_len)])
    /\ UNCHANGED <<frame_offsets_by_feature, seq_len, episode_len, offset_features, prep_exc>>
    /\ UNCHANGED <<gameVars, epVars, helperVars, encVars, buttonVars, miscVars>>

\* sample_from_episode with a shorter episode: random.randint(0, negative)
\* raises ValueError; with debug the slices from index 0 have episode_len
\* frames and TensorDict raises.
SampleFromEpisodeRaises(debug) ==
    /\ sample_T = None /\ prep_exc = "none"
    /\ episode_len < trajectory_sampling_len
    /\ prep_exc' =
          IF ~debug THEN "ValueError"
          ELSE IF BatchSizeMismatch([f \in FeatureNames |->
                                       PySlice(ndarrays_by_feature[f], 0,
                                               trajectory_sampling_len)],
                                    trajectory_sampling_len)
               THEN "RuntimeError"
               ELSE "none"
    /\ UNCHANGED <<frame_offsets_by_feature, seq_len, episode_len, sample_T, offset_features>>
    /\ UNCHANGED <<gameVars, epVars, helperVars, encVars, buttonVars, miscVars>>

\* offset_features(sample_T).  Its dict of slices is kept in offset_features
\* also when the closing TensorDict(...) raises.
OffsetFeatures ==
    /\ sample_T # None /\ offset_features = None /\ prep_exc = "none"
    /\ LET slices == [f \in DOMAIN sample_T[1] |->
                        LET start_idx == reference_frame_idx + OffsetOf(f)
                            end_idx == start_idx + seq_len
                        IN  PySlice(sample_T[1][f], start_idx, end_idx)]
       IN  /\ offset_features' = Some(slices)
           /\ prep_exc' = IF BatchSizeMismatch(slices, seq_len) THEN "RuntimeError" ELSE "none"
    /\ UNCHANGED <<frame_offsets_by_feature, seq_len, episode_len, sample_T>>
    /\ UNCHANGED <<gameVars, epVars, helperVars, encVars, buttonVars, miscVars>>

NextPrep ==
    \/ \E debug \in BOOLEAN, sample_index \in 0..MaxEpisodeLen :
          SampleFromEpisode(debug, sample_index)
    \/ \E debug \in BOOLEAN : SampleFromEpisodeRaises(debug)
    \/ OffsetFeatures

(***************************************************************************)
(* find_open_udp_ports                                                     *)
(*                                                                         *)
(* netstat's output is modelled after the split of each line: the local    *)
(* address and the port field of its fourth word (None for a port "*").    *)
(* The port range is scaled down: it starts at min_port as in the code and *)
(* holds NumPorts ports instead of 2**16 - 10_000.                         *)
(***************************************************************************)
min_port == 10000

max_port == min_port + NumPorts

Systems == {"Linux", "Darwin", "Windows"}

\* ":: / localhost / 0.0.0.0 / *" count as used; a socket bound to another
\* address does not.
WildcardAddresses == {"::", "localhost", "0.0.0.0", "*"}

Addresses == {"0.0.0.0", "127.0.0.1"}

\* One port below the range, the range, and one port above it.
PortFields == {None} \cup { Some(p) : p \in (min_port - 1)..max_port }

NetstatLines == [address : Addresses, port : PortFields]

\* for line in lines: ... used_ports.add(int(port))
used_ports ==
    { l.port[1] : l \in { x \in netstat_lines : x.port # None /\ x.address \in WildcardAddresses } }

\* Faulty variant of available_ports: the used ports are not removed.
available_ports_KeepsUsed == min_port..(max_port - 1)

\* set(range(min_port, max_port)) - used_ports
available_ports ==
    (min_port..(max_port - 1)) \ used_ports

\* random.sample(population, k): any k elements, without replacement, in any order
Sample(population, k) ==
    { s \in [1..k -> population] : \A a, b \in 1..k : a # b => s[a] # s[b] }

InitPorts ==
    /\ system \in Systems
    /\ netstat_lines \in { ls \in SUBSET NetstatLines : Cardinality(ls) <= MaxLines }
    /\ num \in 0..MaxNum
    /\ open_ports = None
    /\ ports_exc = "none"

PortsIdle ==
    /\ system = "Linux"
    /\ netstat_lines = {}
    /\ num = 0
    /\ open_ports = None
    /\ ports_exc = "none"

PortsCalled == open_ports # None \/ ports_exc # "none"

\* raise NotImplementedError(f'Unsupported system "{system}"')
FindOpenUdpPortsUnsupported ==
    /\ ~PortsCalled
    /\ system \notin {"Linux", "Darwin"}
    /\ ports_exc' = "NotImplementedError"
    /\ UNCHANGED <<system, netstat_lines, num, open_ports>>
    /\ UNCHANGED <<gameVars, epVars, helperVars, encVars, buttonVars, prepVars>>
    /\ UNCHANGED <<addVars, managerVars, replayVars, sparseVars, padVars, statsVars>>

\* if len(available_ports) < num: raise RuntimeError("Not enough available ports.")
FindOpenUdpPortsRaises ==
    /\ ~PortsCalled
    /\ system \in {"Linux", "Darwin"}
    /\ Cardinality(available_ports) < num
    /\ ports_exc' = "RuntimeError"
    /\ UNCHANGED <<system, netstat_lines, num, open_ports>>
    /\ UNCHANGED <<gameVars, epVars, helperVars, encVars, buttonVars, prepVars>>
    /\ UNCHANGED <<addVars, managerVars, replayVars, sparseVars, padVars, statsVars>>

\* return random.sample(list(available_ports), num)
FindOpenUdpPorts ==
    /\ ~PortsCalled
    /\ system \in {"Linux", "Darwin"}
    /\ Cardinality(available_ports) >= num
    /\ \E s \in Sample(available_ports, num) : open_ports' = Some(s)
    /\ UNCHANGED <<system, netstat_lines, num, ports_exc>>
    /\ UNCHANGED <<gameVars, epVars, helperVars, encVars, buttonVars, prepVars>>
    /\ UNCHANGED <<addVars, managerVars, replayVars, sparseVars, padVars, statsVars>>

NextPorts ==
    \/ FindOpenUdpPortsUnsupported
    \/ FindOpenUdpPortsRaises
    \/ FindOpenUdpPorts

(***************************************************************************)
(* EpisodeStats.__add__                                                    *)
(*                                                                         *)
(* The damage fields are floats in the code; the values update() produces  *)
(* are sums of integer percent differences, and are integers here.         *)
(***************************************************************************)
CounterFields == {"p1_damage", "p2_damage", "p1_stocks_lost", "p2_stocks_lost",
                  "frames", "episodes"}

MkStats(p1d, p2d, p1s, p2s, fr, ep, prev) ==
    [p1_damage |-> p1d, p2_damage |-> p2d, p1_stocks_lost |-> p1s, p2_stocks_lost |-> p2s,
     frames |-> fr, episodes |-> ep,
     prev_p1_stock |-> prev, prev_p2_stock |-> prev,
     prev_p1_percent |-> prev, prev_p2_percent |-> prev]

\* Every combination of counters up to MaxCounter, with zero or non-zero
\* _prev_ fields.
AnyStats ==
    { MkStats(p1d, p2d, p1s, p2s, fr, ep, prev) :
        p1d \in 0..MaxCounter, p2d \in 0..MaxCounter, p1s \in 0..MaxCounter,
        p2s \in 0..MaxCounter, fr \in 0..MaxCounter, ep \in 0..MaxCounter,
        prev \in {0, MaxCounter} }

\* Fewer second and third operands: the counters vary in two groups.
PairedStats ==
    { MkStats(x, y, y, x, x, y, 0) : x \in 0..MaxCounter, y \in 0..MaxCounter }

\* Faulty variant of Add: other's frames are dropped.
Add_DropsFrames(self, other) ==
    [NewEpisodeStats EXCEPT
        !.p1_damage = self.p1_damage + other.p1_damage,
        !.p2_damage = self.p2_damage + other.p2_damage,
        !.p1_stocks_lost = self.p1_stocks_lost + other.p1_stocks_lost,
        !.p2_stocks_lost = self.p2_stocks_lost + other.p2_stocks_lost,
        !.frames = self.frames,
        !.episodes = self.episodes + other.episodes]

\* EpisodeStats.__add__: a new EpisodeStats; the _prev_ fields get their defaults
Add(self, other) ==
    [NewEpisodeStats EXCEPT
        !.p1_damage = self.p1_damage + other.p1_damage,
        !.p2_damage = self.p2_damage + other.p2_damage,
        !.p1_stocks_lost = self.p1_stocks_lost + other.p1_stocks_lost,
        !.p2_stocks_lost = self.p2_stocks_lost + other.p2_stocks_lost,
        !.frames = self.frames + other.frames,
        !.episodes = self.episodes + other.episodes]

InitAdd ==
    /\ add_operands \in [a : AnyStats, b : PairedStats, c : PairedStats]
    /\ add_sums = None

AddIdle ==
    /\ add_operands = [a |-> NewEpisodeStats, b |-> NewEpisodeStats, c |-> NewEpisodeStats]
    /\ add_sums = None

\* a + b, b + a, (a + b) + c and a + (b + c)
CallAdd ==
    /\ add_sums = None
    /\ LET a == add_operands.a
           b == add_operands.b
           c == add_operands.c
       IN add_sums' = Some([ab |-> Add(a, b), ba |-> Add(b, a),
                            ab_c |-> Add(Add(a, b), c), a_bc |-> Add(a, Add(b, c))])
    /\ UNCHANGED add_operands
    /\ UNCHANGED <<gameVars, epVars, helperVars, encVars, buttonVars, prepVars>>
    /\ UNCHANGED <<portVars, managerVars, replayVars, sparseVars, padVars, statsVars>>

NextAdd == CallAdd

(***************************************************************************)
(* Several EmulatorManager instances in one process.                       *)
(*                                                                         *)
(* Object 0 is the EpisodeStats() that the class body of EmulatorManager   *)
(* evaluates once as the default of the episode_stats attribute; object m  *)
(* is a fresh EpisodeStats() that the caller of manager m may pass.        *)
(***************************************************************************)
Managers == 1..NumManagers

DefaultStats == 0

InitManagers ==
    /\ stats_objects = [o \in {DefaultStats} \cup Managers |-> NewEpisodeStats]
    /\ manager_stats = [m \in Managers |-> None]
    /\ manager_frames = [m \in Managers |-> 0]

ManagersIdle == InitManagers

\* attrs: a default given as a value is that one object for every instance
AttrsDefault(m) == DefaultStats

\* EmulatorManager(udp_port, player, ...), with or without episode_stats=EpisodeStats()
NewEmulatorManager(m, explicit) ==
    /\ manager_stats[m] = None
    /\ manager_stats' = [manager_stats EXCEPT ![m] = Some(IF explicit THEN m ELSE AttrsDefault(m))]
    /\ UNCHANGED <<stats_objects, manager_frames>>
    /\ UNCHANGED <<gameVars, epVars, helperVars, encVars, buttonVars, prepVars>>
    /\ UNCHANGED <<portVars, addVars, replayVars, sparseVars, padVars, statsVars>>

\* run_game of manager m, one in-game frame: self.episode_stats.update(gamestate)
ManagerProcessesFrame(m, gs) ==
    /\ manager_stats[m] # None
    /\ manager_frames[m] < MaxManagerFrames
    /\ stats_objects' = [stats_objects EXCEPT ![manager_stats[m][1]] = StatsUpdate(@, gs)]
    /\ manager_frames' = [manager_frames EXCEPT ![m] = @ + 1]
    /\ UNCHANGED manager_stats
    /\ UNCHANGED <<gameVars, epVars, helperVars, encVars, buttonVars, prepVars>>
    /\ UNCHANGED <<portVars, addVars, replayVars, sparseVars, padVars, statsVars>>

NextManagers ==
    \/ \E m \in Managers, explicit \in BOOLEAN : NewEmulatorManager(m, explicit)
    \/ \E m \in Managers, gs \in { g \in Gamestates : g.menu_state \in InGameStates } :
          ManagerProcessesFrame(m, gs)

(***************************************************************************)
(* process_replay and extract_and_append_single_frame_inplace              *)
(*                                                                         *)
(* A gamestate of a replay is [frame, stage, players], players mapping the *)
(* ports in use to the character played there.  What the code reads of a   *)
(* player's state is kept as PlayerData and what it reads of the           *)
(* controller_state as ControllerData; both name the frame and the port    *)
(* they were read from.  frame_data's columns are grouped: one column for  *)
(* the state fields of a player and one for the controller fields, since   *)
(* the code appends each group without a step that can fail in between.    *)
(***************************************************************************)
\* Stages and characters with an index, and one of each without.
IDX_BY_STAGE == [s \in {"BATTLEFIELD", "FINAL_DESTINATION"} |-> <<"stage_idx", s>>]

IDX_BY_CHARACTER == [c \in {"FOX", "MARTH"} |-> <<"character_idx", c>>]

ReplayStages == {"BATTLEFIELD", "FINAL_DESTINATION", "NO_STAGE"}

ReplayPlayers ==
    UNION { [ports -> {"FOX"}] : ports \in {{1, 2}, {1, 3}, {1, 2, 3}} }
    \cup { [p \in {1, 2} |-> IF p = 1 THEN "UNKNOWN_CHARACTER" ELSE "MARTH"] }

ReplayGamestates(k) ==
    [frame : {k}, stage : ReplayStages, players : ReplayPlayers]

Columns == {"replay_uuid", "frame", "stage", "p1", "p1_controller", "p2", "p2_controller"}

\* sorted(prev_gamestate.players.items()): the ports in increasing order
RECURSIVE SortedPorts(_)
SortedPorts(ports) ==
    IF ports = {} THEN <<>>
    ELSE LET lo == CHOOSE p \in ports : \A q \in ports : p <= q
         IN <<lo>> \o SortedPorts(ports \ {lo})

\* player_data of the player at port in gamestate gs
PlayerData(gs, port) ==
    [frame |-> gs.frame, port |-> port, character |-> IDX_BY_CHARACTER[gs.players[port]]]

\* Faulty variant of ControllerData: the controller state is read from
\* prev_gamestate, the frame the player state is read from.
ControllerData_SameFrame(prev, gs, port) ==
    [frame |-> prev.frame, port |-> port]

\* controller = gamestate.players[port].controller_state
ControllerData(prev, gs, port) ==
    [frame |-> gs.frame, port |-> port]

AppendTo(fd, column, value) == [fd EXCEPT ![column] = Append(@, value)]

Outcome(fd, e) == [frame_data |-> fd, exc |-> e]

\* for i, (port, player_state) in enumerate(players, start=1): ..., from player i on
RECURSIVE AppendPlayers(_, _, _, _)
AppendPlayers(fd, prev, gs, k) ==
    IF k > Cardinality(DOMAIN prev.players) THEN Outcome(fd, "none")
    ELSE LET port == SortedPorts(DOMAIN prev.players)[k]
             prefix == IF k = 1 THEN "p1" ELSE "p2"
         IN IF prev.players[port] \notin DOMAIN IDX_BY_CHARACTER
            THEN Outcome(fd, "KeyError")
            ELSE LET fd1 == AppendTo(fd, prefix, PlayerData(prev, port))
                 IN IF port \notin DOMAIN gs.players
                    THEN Outcome(fd1, "KeyError")
                    ELSE AppendPlayers(
                            AppendTo(fd1, prefix \o "_controller", ControllerData(prev, gs, port)),
                            prev, gs, k + 1)

\* extract_and_append_single_frame_inplace(frame_data, prev_gamestate, gamestate,
\* replay_uuid): frame_data as the call leaves it, and the exception it raises.
ExtractAndAppendSingleFrameInplace(fd, prev_gamestate, gs) ==
    IF prev_gamestate = None THEN Outcome(fd, "none")
    ELSE LET prev == prev_gamestate[1] IN
         IF Cardinality(DOMAIN prev.players) # 2 THEN Outcome(fd, "ValueError")
         ELSE LET fd1 == AppendTo(AppendTo(fd, "replay_uuid", "uuid"), "frame", prev.frame)
              IN IF prev.stage \notin DOMAIN IDX_BY_STAGE
                 THEN Outcome(fd1, "KeyError")
                 ELSE AppendPlayers(AppendTo(fd1, "stage", IDX_BY_STAGE[prev.stage]),
                                    prev, gs, 1)

InitReplay ==
    /\ replay_fed = <<>>
    /\ replay_prev = None
    /\ replay_frame_data = [c \in Columns |-> <<>>]
    /\ replay_status = "running"

ReplayIdle == InitReplay

\* gamestate = console.step(); frame_data = extract_and_append_...(...);
\* prev_gamestate = gamestate
ReplayStep(gs) ==
    /\ replay_status = "running"
    /\ Len(replay_fed) < MaxReplayFrames
    /\ LET r == ExtractAndAppendSingleFrameInplace(replay_frame_data, replay_prev, gs) IN
         /\ r.exc = "none"
         /\ replay_frame_data' = r.frame_data
    /\ replay_fed' = Append(replay_fed, gs)
    /\ replay_prev' = Some(gs)
    /\ UNCHANGED replay_status
    /\ UNCHANGED <<gameVars, epVars, helperVars, encVars, buttonVars, prepVars>>
    /\ UNCHANGED <<portVars, addVars, managerVars, sparseVars, padVars, statsVars>>

\* The call raises: except Exception: return None (finally: console.stop()).
\* frame_data keeps what the call appended before it raised.
ReplayStepRaises(gs) ==
    /\ replay_status = "running"
    /\ Len(replay_fed) < MaxReplayFrames
    /\ LET r == ExtractAndAppendSingleFrameInplace(replay_frame_data, replay_prev, gs) IN
         /\ r.exc # "none"
         /\ replay_frame_data' = r.frame_data
         /\ replay_status' = r.exc
    /\ replay_fed' = Append(replay_fed, gs)
    /\ UNCHANGED replay_prev
    /\ UNCHANGED <<gameVars, epVars, helperVars, encVars, buttonVars, prepVars>>
    /\ UNCHANGED <<portVars, addVars, managerVars, sparseVars, padVars, statsVars>>

\* console.step() returns None: break (finally: console.stop())
ReplayEnds ==
    /\ replay_status = "running"
    /\ replay_status' = "ended"
    /\ UNCHANGED <<replay_fed, replay_prev, replay_frame_data>>
    /\ UNCHANGED <<gameVars, epVars, helperVars, encVars, buttonVars, prepVars>>
    /\ UNCHANGED <<portVars, addVars, managerVars, sparseVars, padVars, statsVars>>

NextReplay ==
    \/ \E gs \in ReplayGamestates(Len(replay_fed)) : ReplayStep(gs)
    \/ \E gs \in ReplayGamestates(Len(replay_fed)) : ReplayStepRaises(gs)
    \/ ReplayEnds

(***************************************************************************)
(* sparse_one_hot                                                          *)
(*                                                                         *)
(* The argument has one column per button and a last column "no button".   *)
(* The arrays drawn are those of a sequence of pressed sets: a row has the *)
(* bits of its pressed buttons, and the last bit iff no button is pressed. *)
(***************************************************************************)
\* The row of D bits of a pressed set (a set of button columns 1..D-1).
RowOfPressed(pressed, D) ==
    [d \in 1..D |-> IF d = D THEN BoolToInt(pressed = {}) ELSE BoolToInt(d \in pressed)]

SparseArrays(T, D) ==
    { [t \in 1..T |-> RowOfPressed(p[t], D)] : p \in [1..T -> SUBSET (1..(D - 1))] }

\* np.diff(np.vstack([np.zeros(cols), array]), axis=0) == 1
Diff(array) ==
    [t \in 1..Len(array) |->
        [d \in 1..Len(array[t]) |->
            (array[t][d] - (IF t = 1 THEN 0 ELSE array[t - 1][d])) = 1]]

\* streak_starts after streak_starts[rows_without_ones, -1] = 1
StreakStarts(array) ==
    [t \in 1..Len(array) |->
        LET row == Diff(array)[t]
            D == Len(array[t])
        IN IF \E d \in 1..D : row[d]
           THEN row
           ELSE [row EXCEPT ![D] = TRUE]]

\* return array * streak_starts
SparseOneHot(array) ==
    [t \in 1..Len(array) |->
        [d \in 1..Len(array[t]) |-> array[t][d] * BoolToInt(StreakStarts(array)[t][d])]]

InitSparse ==
    /\ sparse_array \in UNION { SparseArrays(T, NumButtons + 1) : T \in 1..MaxFrames }
    /\ sparse_result = None

SparseIdle ==
    /\ sparse_array = <<>>
    /\ sparse_result = None

\* sparse_one_hot(sparse_array)
CallSparseOneHot ==
    /\ sparse_result = None
    /\ sparse_result' = Some(SparseOneHot(sparse_array))
    /\ UNCHANGED sparse_array
    /\ UNCHANGED <<gameVars, epVars, helperVars, encVars, buttonVars, prepVars>>
    /\ UNCHANGED <<portVars, addVars, managerVars, replayVars, padVars, statsVars>>

NextSparse == CallSparseOneHot

(***************************************************************************)
(* pad_tensors, called directly.                                           *)
(*                                                                         *)
(* A TensorDict's tensors share the batch dimension T and are padded the   *)
(* same way, so one tensor stands for them: [ndim, data].  With ndim = 1   *)
(* the tensor has shape (T,) and data is a sequence of T numbers (what     *)
(* convert_frame_data_to_tensor_dict builds); with ndim = 2 it has shape   *)
(* (T, D), the shape the docstring names, and data is a sequence of T rows *)
(* of D numbers.                                                           *)
(***************************************************************************)
PadValues == {1, 2}

Tensors1D(T) == [ndim : {1}, data : [1..T -> PadValues]]

Tensors2D(T, D) == [ndim : {2}, data : [1..T -> [1..D -> PadValues]]]

Zeros(n) == [k \in 1..n |-> 0]

\* torch.nn.functional.pad(v, (pad_size, 0)): pad_size zeros in front of the
\* LAST dimension of v.
FPad(v, pad_size) ==
    IF v.ndim = 1
    THEN [v EXCEPT !.data = Zeros(pad_size) \o @]
    ELSE [v EXCEPT !.data = [t \in 1..Len(@) |-> Zeros(pad_size) \o @[t]]]

\* TensorDict(..., batch_size=(length,)) raises unless the first dimension of
\* every tensor is length.
BatchSizeOk(v, length) == Len(v.data) = length

InitPad ==
    /\ pad_td \in UNION { Tensors1D(T) \cup Tensors2D(T, PadDim) : T \in 1..MaxFrames }
    /\ pad_length \in 1..MaxPadLength
    /\ pad_result = None
    /\ pad_exc = "none"

PadIdle ==
    /\ pad_td = [ndim |-> 1, data |-> <<>>]
    /\ pad_length = 0
    /\ pad_result = None
    /\ pad_exc = "none"

PadCalled == pad_result # None \/ pad_exc # "none"

\* pad_tensors(td, length) returns: td itself, or the padded TensorDict
CallPadTensors ==
    /\ ~PadCalled
    /\ IF Len(pad_td.data) < pad_length
       THEN /\ BatchSizeOk(FPad(pad_td, pad_length - Len(pad_td.data)), pad_length)
            /\ pad_result' = Some(FPad(pad_td, pad_length - Len(pad_td.data)))
       ELSE pad_result' = Some(pad_td)
    /\ UNCHANGED <<pad_td, pad_length, pad_exc>>
    /\ UNCHANGED <<gameVars, epVars, helperVars, encVars, buttonVars, prepVars>>
    /\ UNCHANGED <<portVars, addVars, managerVars, replayVars, sparseVars, statsVars>>

\* pad_tensors(td, length) raises: the padded tensors do not have length frames
CallPadTensorsRaises ==
    /\ ~PadCalled
    /\ Len(pad_td.data) < pad_length
    /\ ~BatchSizeOk(FPad(pad_td, pad_length - Len(pad_td.data)), pad_length)
    /\ pad_exc' = "RuntimeError"
    /\ UNCHANGED <<pad_td, pad_length, pad_result>>
    /\ UNCHANGED <<gameVars, epVars, helperVars, encVars, buttonVars, prepVars>>
    /\ UNCHANGED <<portVars, addVars, managerVars, replayVars, sparseVars, statsVars>>

NextPad ==
    \/ CallPadTensors
    \/ CallPadTensorsRaises

(***************************************************************************)
(* EpisodeStats.update, called directly: any menu state, percents that     *)
(* rise and fall back to zero, stocks that are lost.                       *)
(***************************************************************************)
UpdatePlayers ==
    [p1_percent : {0, 10}, p2_percent : {0, 10}, p1_stock : {3, 4}, p2_stock : {4}]

UpdateGamestates ==
    { MkGamestate(m, FALSE, pl) :
        m \in {"IN_GAME", "SUDDEN_DEATH", "POSTGAME_SCORES"}, pl \in UpdatePlayers }

InitStats ==
    /\ stats = NewEpisodeStats
    /\ stats_calls = 0
    /\ stats_in_game_calls = 0

StatsIdle == InitStats

\* stats.update(gs)
CallUpdate(gs) ==
    /\ stats_calls < MaxUpdates
    /\ stats' = StatsUpdate(stats, gs)
    /\ stats_calls' = stats_calls + 1
    /\ stats_in_game_calls' = stats_in_game_calls + BoolToInt(gs.menu_state \in InGameStates)
    /\ UNCHANGED <<gameVars, epVars, helperVars, encVars, buttonVars, prepVars>>
    /\ UNCHANGED <<portVars, addVars, managerVars, replayVars, sparseVars, padVars>>

NextStats == \E gs \in UpdateGamestates : CallUpdate(gs)

(***************************************************************************)
(* Specifications.  Each one runs one program; the other's variables keep  *)
(* their initial values.                                                   *)
(***************************************************************************)
GameIdle == InitGame /\ ~console_logger.enabled

MiscIdle == PortsIdle /\ AddIdle /\ ManagersIdle /\ ReplayIdle /\ SparseIdle /\ PadIdle /\ StatsIdle

FnIdle == HelpersIdle /\ EncIdle /\ ButtonIdle /\ PrepIdle /\ MiscIdle

Init == InitGame /\ InitEp /\ FnIdle

Next == NextGame

Spec == Init /\ [][Next]_vars

\* run_game with the scheduling the code has: leaving console_manager and
\* leaving the executor's with block happen once they can.  Whether a
\* console.step() call ever returns is up to the emulator.
FairGame ==
    /\ WF_vars(ExitConsoleManager)
    /\ WF_vars(ExitExecutor)

SpecFair == Init /\ [][Next]_vars /\ FairGame

InitE == GameIdle /\ InitEp /\ FnIdle

NextE == NextEp

SpecEp == InitE /\ [][NextE]_vars

\* run_episode with the scheduling the code has: console.step() returns or
\* raises, a call that can return does, and a process that can run does.  A
\* SIGINT and a crash of the worker may or may not come.
EpStep ==
    \/ EpStepReturnsNone
    \/ \E gs \in Gamestates : EpStepReturnsMenu(gs)
    \/ \E gs \in Gamestates : EpStepReturnsInGame(gs)
    \/ EpStepRaises

FairEp ==
    /\ WF_vars(\E f \in {"none", "console", "controller_1", "controller_2"} : EpConnect(f))
    /\ WF_vars(EpStep)
    /\ WF_vars(EpLoopExhausted)
    /\ WF_vars(EpGetDecision)
    /\ WF_vars(EpFinallySentinel)
    /\ WF_vars(EpJoinReturns)
    /\ WF_vars(EpExitConsoleManager)
    /\ WF_vars(ModelServerGet)
    /\ WF_vars(ModelServerPut)

SpecEpFair == InitE /\ [][NextE]_vars /\ FairEp

InitH == GameIdle /\ InitEp /\ InitHelpers /\ EncIdle /\ ButtonIdle /\ PrepIdle /\ MiscIdle

SpecHelpers == InitH /\ [][NextHelpers]_vars

InitT == GameIdle /\ InitEp /\ HelpersIdle /\ InitEnc /\ ButtonIdle /\ PrepIdle /\ MiscIdle

SpecEnc == InitT /\ [][NextEnc]_vars

InitB == GameIdle /\ InitEp /\ HelpersIdle /\ EncIdle /\ InitButton /\ PrepIdle /\ MiscIdle

SpecButton == InitB /\ [][NextButton]_vars

InitP == GameIdle /\ InitEp /\ HelpersIdle /\ EncIdle /\ ButtonIdle /\ InitPrep /\ MiscIdle

SpecPrep == InitP /\ [][NextPrep]_vars

CoreIdle == GameIdle /\ InitEp /\ HelpersIdle /\ EncIdle /\ ButtonIdle /\ PrepIdle

InitO == CoreIdle /\ InitPorts /\ AddIdle /\ ManagersIdle /\ ReplayIdle /\ SparseIdle /\ PadIdle /\ StatsIdle

SpecPorts == InitO /\ [][NextPorts]_vars

InitA == CoreIdle /\ PortsIdle /\ InitAdd /\ ManagersIdle /\ ReplayIdle /\ SparseIdle /\ PadIdle /\ StatsIdle

SpecAdd == InitA /\ [][NextAdd]_vars

InitM == CoreIdle /\ PortsIdle /\ AddIdle /\ InitManagers /\ ReplayIdle /\ SparseIdle /\ PadIdle /\ StatsIdle

SpecManagers == InitM /\ [][NextManagers]_vars

InitR == CoreIdle /\ PortsIdle /\ AddIdle /\ ManagersIdle /\ InitReplay /\ SparseIdle /\ PadIdle /\ StatsIdle

SpecReplay == InitR /\ [][NextReplay]_vars

InitS == CoreIdle /\ PortsIdle /\ AddIdle /\ ManagersIdle /\ ReplayIdle /\ InitSparse /\ PadIdle /\ StatsIdle

SpecSparse == InitS /\ [][NextSparse]_vars

InitD == CoreIdle /\ PortsIdle /\ AddIdle /\ ManagersIdle /\ ReplayIdle /\ SparseIdle /\ InitPad /\ StatsIdle

SpecPad == InitD /\ [][NextPad]_vars

InitU == CoreIdle /\ PortsIdle /\ AddIdle /\ ManagersIdle /\ ReplayIdle /\ SparseIdle /\ PadIdle /\ InitStats

SpecStats == InitU /\ [][NextStats]_vars

(***************************************************************************)
(* Claims about EmulatorManager.run_game (checked under Spec).             *)
(***************************************************************************)
TearingDown == pc \in {"exit_manager", "exit_executor", "done"}

\* A step of the model in which future.result returned gs (an optional gamestate).
StepResolved == pc = "await_step" /\ step_future' = "none" /\ exc' = "none"

LastOp(controller) == controller.last[Len(controller.last)]

C2_TimeoutStopsOnceNoRetry ==
    /\ [](left_by = "timeout" =>
            /\ console.stops <= 1
            /\ (pc \in {"exit_executor", "done"} => console.stops = 1))
    /\ [][(left_by = "timeout" \/ step_future # "none") => console'.steps = console.steps]_vars

C2_Witness ==
    pc = "done" /\ left_by = "timeout" /\ console.stops = 1 /\ console.steps = 2

\* C3: however the episode loop is left (match end, max_steps, timeout,
\* interrupt, exception), console.stop() is called exactly once, never while
\* the loop runs, and with a logger writelog is called once, before stop.
C3_TeardownStopsOnce ==
    /\ console.stops <= 1
    /\ ~TearingDown => console.stops = 0
    /\ (pc \in {"exit_executor", "done"} /\ left_by # "none") =>
          /\ console.stops = 1
          /\ Count(teardown, "stop") = 1
          /\ console_logger.enabled =>
                /\ console_logger.writelogs = 1
                /\ \E a, b \in DOMAIN teardown :
                      a < b /\ teardown[a] = "writelog" /\ teardown[b] = "stop"

C3_Witness ==
    /\ pc = "done" /\ left_by = "exception" /\ console_logger.enabled
    /\ console.stops = 1 /\ console_logger.writelogs = 1

\* C4: each resolved IN_GAME or SUDDEN_DEATH gamestate is yielded once (and
\* nothing else is yielded); while the generator is suspended no step is
\* submitted; inputs that are not None are sent to the ego controller in one
\* call ending with flush, before the loop goes on, and the opponent's
\* controller is left alone.
C4_YieldAndApply ==
    /\ [][(StepResolved /\ gamestate' # None /\ gamestate'[1].menu_state \in InGameStates)
            => (yields' = yields + 1 /\ pc' = "yielded")]_vars
    /\ [][yields' # yields
            => (StepResolved /\ gamestate' # None /\ gamestate'[1].menu_state \in InGameStates)]_vars
    /\ [][pc = "yielded" => console'.steps = console.steps]_vars
    /\ [][(pc = "yielded" /\ pc' = "loop" /\ controller_inputs' # None)
            => /\ ego_controller'.calls = ego_controller.calls + 1
               /\ LastOp(ego_controller').op = "flush"
               /\ Count([k \in DOMAIN ego_controller'.last |-> ego_controller'.last[k].op],
                        "flush") = 1
               /\ opponent_controller' = opponent_controller]_vars

C4_Witness ==
    /\ pc = "await_step" /\ yields = 1 /\ i = 1 /\ controller_inputs # None
    /\ ego_controller.last # <<>> /\ LastOp(ego_controller).op = "flush"

\* C11: when the caller resumes run_game with None for a yielded in-match
\* frame, the episode goes on: no operation is issued on either controller,
\* episode_stats is updated from the frame (one more frame counted), the
\* console logger writes its frame, i is incremented, nothing is raised or
\* stopped, and the loop is back at its while test, from where the next step
\* is submitted.
C11_NoneDecision ==
    /\ [][(pc = "yielded" /\ pc' = "loop" /\ controller_inputs' = None)
            => /\ ego_controller' = ego_controller
               /\ opponent_controller' = opponent_controller
               /\ gamestate[1].menu_state \in InGameStates
               /\ episode_stats' = StatsUpdate(episode_stats, gamestate[1])
               /\ episode_stats'.frames = episode_stats.frames + 1
               /\ console_logger'.writeframes =
                     console_logger.writeframes + BoolToInt(console_logger.enabled)
               /\ i' = i + 1
               /\ exc' = "none" /\ left_by' = "none" /\ outcome' = "running"
               /\ console' = console /\ teardown' = teardown]_vars
    /\ [][(pc = "yielded" /\ controller_inputs' = None /\ controller_inputs # None)
            => pc' = "loop"]_vars
    /\ []((pc = "loop" /\ i < MaxSteps /\ console.steps < MaxStepCalls) => ENABLED SubmitStep)

C11_Witness ==
    /\ pc = "await_step" /\ i = 2 /\ yields = 2 /\ controller_inputs = None
    /\ episode_stats.frames = 2 /\ ego_controller.calls = 1 /\ console.steps = 3

\* C7: a connect() that returns false makes the process exit with a nonzero
\* status; nothing is done after that: no retry, no later connect, no step.
C7_ConnectFailureExits ==
    /\ []((\/ pc # "start" /\ ~console.connected
           \/ pc \notin {"start", "connect_ego"} /\ ~ego_controller.connected
           \/ pc \notin {"start", "connect_ego", "connect_opp"} /\ ~opponent_controller.connected)
          => /\ outcome = "exited" /\ pc = "done"
             /\ exit_code # None /\ exit_code[1] # 0
             /\ console.steps = 0)
    /\ [](~console.connected => ~ego_controller.connected)
    /\ [](~ego_controller.connected => ~opponent_controller.connected)
    /\ [][outcome # "exited"]_vars

C7_Witness ==
    outcome = "exited" /\ console.connected /\ ~ego_controller.connected /\ exit_code = Some(-1)

\* C8: a None result of console.step() is skipped: i, match_started,
\* episode_stats, the yields, the menu helper's calls and both controllers
\* are unchanged, and the loop is back at its while test with i < max_steps.
C8_NoneSkipped ==
    [][(StepResolved /\ gamestate' = None)
         => /\ pc' = "loop" /\ i' = i /\ i' < MaxSteps
            /\ match_started' = match_started
            /\ episode_stats' = episode_stats
            /\ yields' = yields /\ menu_calls' = menu_calls
            /\ ego_controller' = ego_controller
            /\ opponent_controller' = opponent_controller
            /\ left_by' = "none"]_vars

C8_Witness == pc = "await_step" /\ gamestate = None /\ console.steps = 2 /\ i = 0

\* C9: once the match started, the first gamestate outside IN_GAME and
\* SUDDEN_DEATH ends the episode: it is not yielded, the menu helper is not
\* called, no step is submitted any more and the teardown runs; match_started
\* never reverts, and the menu helper is never called once it is set.
C9_MatchEnd ==
    /\ [][match_started => match_started']_vars
    /\ [][match_started => menu_calls' = menu_calls]_vars
    /\ [][(StepResolved /\ match_started /\ gamestate' # None
             /\ gamestate'[1].menu_state \notin InGameStates)
            => /\ pc' = "exit_manager" /\ left_by' = "match_end"
               /\ yields' = yields /\ menu_calls' = menu_calls]_vars
    /\ [][left_by = "match_end"
            => (console'.steps = console.steps /\ left_by' = "match_end")]_vars
    /\ []((left_by = "match_end" /\ pc \in {"exit_executor", "done"}) => console.stops = 1)

C9_Witness ==
    pc = "done" /\ left_by = "match_end" /\ console.stops = 1 /\ yields = 1 /\ menu_calls = 1

\* C10: at most max_steps gamestates are yielded, and when i reaches max_steps
\* the loop ends without an exception, through the teardown, and the generator
\* returns.
C10_MaxStepsCeiling ==
    /\ [](yields <= MaxSteps /\ i <= MaxSteps /\ i <= yields)
    /\ [][(pc = "loop" /\ i >= MaxSteps)
            => (pc' = "exit_manager" /\ console'.steps = console.steps)]_vars
    /\ [](left_by = "max_steps" =>
            /\ i = MaxSteps /\ yields = MaxSteps /\ exc = "none" /\ TearingDown
            /\ (pc \in {"exit_executor", "done"} => console.stops = 1)
            /\ (pc = "done" => outcome = "returned"))

C10_Witness ==
    pc = "done" /\ left_by = "max_steps" /\ yields = MaxSteps /\ outcome = "returned"

(***************************************************************************)
(* Claims about run_episode and model_server (checked under SpecEp).       *)
(***************************************************************************)
IsObservation(m) == m # None

\* The window model_server holds after the first k gamestates it took.
WindowAfter(k) ==
    SubSeq([j \in 1..k |-> Features(consumed[j])], Max(1, k - InputLen + 1), k)

\* C5: model_server publishes one decision per gamestate whose cycle it
\* completed, never more decisions than gamestates taken (none for the
\* sentinel), and the k-th decision is the one computed from the window as it
\* was after the k-th gamestate.
C5_OneDecisionPerObservation ==
    /\ Len(published) <= Len(consumed)
    /\ Len(consumed) - Len(published) <= 1
    /\ ml_process \in {"waiting", "exited"} => Len(published) = Len(consumed)
    /\ ml_process = "computing" => Len(consumed) = Len(published) + 1
    /\ \A k \in DOMAIN published :
          published[k] = Policy(PadTensors(WindowAfter(k), InputLen))

C5_Witness ==
    /\ Len(published) = 2 /\ Len(consumed) = 2 /\ consumed[1] # consumed[2]
    /\ published[1] # published[2]

\* C6: run_episode has at most one observation outstanding: between its put
\* and its get of the decision it does nothing else, it steps the console
\* only with both queues empty, and in every interleaving each queue holds at
\* most one message that is not the sentinel.
C6_OneOutstanding ==
    /\ Len(SelectSeq(input_queue, IsObservation)) <= 1
    /\ Len(output_queue) <= 1
    /\ Len(SelectSeq(input_queue, IsObservation)) + Len(output_queue)
          + (IF ml_process = "computing" THEN 1 ELSE 0) <= 1
    /\ ep_pc = "loop" =>
          /\ input_queue = <<>> /\ output_queue = <<>>
          /\ Len(consumed) = ep_i /\ Len(published) = ep_i

C6_Witness ==
    /\ ep_pc = "await_decision" /\ ep_i = 1 /\ Len(output_queue) = 1
    /\ input_queue = <<>> /\ ml_process = "waiting"

(***************************************************************************)
(* Claims about self_play_menu_helper and send_controller_inputs (checked  *)
(* under SpecHelpers).                                                     *)
(***************************************************************************)
\* A step of the model that is a call of self_play_menu_helper.
MenuHelperCalled == helper_calls' = helper_calls + 1 /\ menu_gamestate' # None

\* A step of the model that is a call of send_controller_inputs.
SendCalled == helper_calls' = helper_calls + 1 /\ sent_inputs' # None

\* C12: self_play_menu_helper acts on controller_2 only on the character
\* select screen and only when player 1's character is already character_1,
\* and then it is choose_character with start set; when player 1's character is
\* not yet character_1 its only action is choose_character(character_1) on
\* controller_1 with start not set.
C12_OpponentAfterEgo ==
    /\ [][(MenuHelperCalled /\ menu_controller_2' # menu_controller_2)
            => /\ menu_gamestate'[1].menu_state = "CHARACTER_SELECT"
               /\ menu_gamestate'[1].p1_selected
               /\ menu_controller_2'.calls = menu_controller_2.calls + 1
               /\ menu_controller_2'.last = <<Op("choose_character", "character_2", <<1>>)>>
               /\ menu_controller_1' = menu_controller_1]_vars
    /\ [][(MenuHelperCalled /\ menu_gamestate'[1].menu_state = "CHARACTER_SELECT"
             /\ ~menu_gamestate'[1].p1_selected)
            => /\ menu_controller_2' = menu_controller_2
               /\ menu_controller_1'.calls = menu_controller_1.calls + 1
               /\ menu_controller_1'.last = <<Op("choose_character", "character_1", <<0>>)>>]_vars

C12_Witness ==
    /\ helper_calls = 2 /\ menu_gamestate # None
    /\ menu_gamestate[1].menu_state = "CHARACTER_SELECT" /\ menu_gamestate[1].p1_selected
    /\ menu_controller_1.calls = 1
    /\ menu_controller_1.last = <<Op("choose_character", "character_1", <<0>>)>>
    /\ menu_controller_2.calls = 1
    /\ menu_controller_2.last = <<Op("choose_character", "character_2", <<1>>)>>

\* The buttons send_controller_inputs presses or releases.
CanonicalButtons == { INCLUDED_BUTTONS[k] : k \in 1..Len(INCLUDED_BUTTONS) } \ {"NO_BUTTON"}

\* The positions of ops that hold operation o.
OpsNamed(ops, o) == { k \in DOMAIN ops : ops[k].op = o }

\* What one call of send_controller_inputs with inputs is to issue.
SendOpsAsClaimed(ops, inputs) ==
    /\ OpsNamed(ops, "tilt_analog") = {1, 2}
    /\ ops[1] = Op("tilt_analog", "BUTTON_MAIN", inputs.main_stick)
    /\ ops[2] = Op("tilt_analog", "BUTTON_C", inputs.c_stick)
    /\ Cardinality(OpsNamed(ops, "press_button")) <= 1
    /\ \A k \in OpsNamed(ops, "press_button") : ops[k].arg = inputs.button
    /\ inputs.button \in CanonicalButtons => OpsNamed(ops, "press_button") # {}
    /\ \A b \in CanonicalButtons :
          Cardinality({ k \in OpsNamed(ops, "release_button") : ops[k].arg = b })
             = IF b = inputs.button THEN 0 ELSE 1
    /\ \A k \in OpsNamed(ops, "release_button") : ops[k].arg \in CanonicalButtons
    /\ IF inputs.shoulder = None
       THEN OpsNamed(ops, "press_shoulder") = {}
       ELSE /\ Cardinality(OpsNamed(ops, "press_shoulder")) = 1
            /\ \A k \in OpsNamed(ops, "press_shoulder") :
                  ops[k].arg = "BUTTON_L" /\ ops[k].val = inputs.shoulder
    /\ OpsNamed(ops, "flush") = {Len(ops)}

\* C13: one call of send_controller_inputs acts on its controller only; it
\* tilts the main stick and the c stick to the given axes, presses the button
\* named by inputs["button"] and no other, releases every other canonical
\* button (all five when the name is NO_BUTTON or not canonical), presses the
\* shoulder exactly when inputs has one, and flushes once, as its last operation.
C13_SendControllerInputs ==
    [][SendCalled
         => \/ /\ menu_controller_2' = menu_controller_2
               /\ menu_controller_1'.calls = menu_controller_1.calls + 1
               /\ SendOpsAsClaimed(menu_controller_1'.last, sent_inputs'[1])
            \/ /\ menu_controller_1' = menu_controller_1
               /\ menu_controller_2'.calls = menu_controller_2.calls + 1
               /\ SendOpsAsClaimed(menu_controller_2'.last, sent_inputs'[1])]_vars

C13_Witness ==
    /\ helper_calls = 2 /\ sent_inputs # None
    /\ sent_inputs[1].button = "BUTTON_X" /\ sent_inputs[1].shoulder # None
    /\ menu_controller_2.calls = 1 /\ Len(menu_controller_2.last) = 9
    /\ menu_controller_2.last[6] = Op("press_button", "BUTTON_X", <<>>)
    /\ menu_controller_1.calls = 1 /\ Len(menu_controller_1.last) = 8
    /\ OpsNamed(menu_controller_1.last, "release_button") = {3, 4, 5, 6, 7}

(***************************************************************************)
(* Claims about convert_target_to_one_hot (checked under SpecEnc).         *)
(***************************************************************************)
\* convert_target_to_one_hot has returned.
Encoded == target_one_hot # None

\* The buttons pressed at time step t of the argument.
Pressed(t) == ButtonsAt(target_array, t)

\* The active columns of a row.
Active(row) == { d \in DOMAIN row : row[d] = 1 }

\* Row t of the result.
OneHotRow(t) == target_one_hot[1][t]

\* C14: every row of the result of convert_target_to_one_hot has exactly one
\* active column, whatever the bits of the argument.
C14_ExactlyOneCategory ==
    Encoded => \A t \in 1..Len(target_array) : Cardinality(Active(OneHotRow(t))) = 1

\* C15: at every time step with two or more buttons pressed, of which at least
\* one was not pressed at the time step before, the result of
\* convert_target_to_one_hot has a button column active, and no active column
\* is a button that was pressed at the time step before.
C15_NewlyPressedChosen ==
    Encoded =>
       \A t \in 1..Len(target_array) :
          (/\ Cardinality(Pressed(t)) >= 2
           /\ (t > 1 => Pressed(t) \ Pressed(t - 1) # {}))
          => /\ Active(OneHotRow(t)) # {}
             /\ Active(OneHotRow(t)) \subseteq Pressed(t)
             /\ t > 1 => Active(OneHotRow(t)) \cap Pressed(t - 1) = {}

\* C17: at every time step whose two or more pressed buttons are the ones of
\* the time step before, the row of the result is the row of the time step
\* before, and it has one button column active (not none, not "no press").
C17_SustainedCombination ==
    Encoded =>
       \A t \in 2..Len(target_array) :
          (Cardinality(Pressed(t)) >= 2 /\ Pressed(t) = Pressed(t - 1))
          => /\ OneHotRow(t) = OneHotRow(t - 1)
             /\ Cardinality(Active(OneHotRow(t))) = 1
             /\ Active(OneHotRow(t)) \subseteq Pressed(t)

\* C18: at every time step with no button pressed the result of
\* convert_target_to_one_hot has the last column ("no press") active and no
\* other; at every time step with exactly one button pressed it has that
\* button's column active and no other; whatever the other time steps hold.
C18_NoneAndSingle ==
    Encoded =>
       \A t \in 1..Len(target_array) :
          /\ Len(OneHotRow(t)) = NumButtons + 1
          /\ Pressed(t) = {} => Active(OneHotRow(t)) = {NumButtons + 1}
          /\ Cardinality(Pressed(t)) = 1 => Active(OneHotRow(t)) = Pressed(t)

C18_Witness ==
    /\ Encoded /\ Len(target_array) = 3
    /\ Pressed(1) = {1, 2} /\ Pressed(2) = {1} /\ Pressed(3) = {}
    /\ Active(OneHotRow(2)) = {1} /\ Active(OneHotRow(3)) = {NumButtons + 1}

(***************************************************************************)
(* Claims about convert_target_button_to_one_hot (checked under            *)
(* SpecButton).                                                            *)
(***************************************************************************)
\* The buttons of sequence b pressed at time step t and not at the one before.
NewlyPressedIn(b, t) ==
    ButtonsAt(button_array[b], t)
       \ (IF t > 1 THEN ButtonsAt(button_array[b], t - 1) ELSE {})

\* C16: two calls of convert_target_button_to_one_hot on the same argument
\* return the same result, and wherever a sequence has more than one newly
\* pressed button at a time step, the row of the result has exactly one
\* active column, the column of one of these buttons.
C16_FixedPriority ==
    /\ button_one_hot_2 # None => button_one_hot_2 = button_one_hot
    /\ button_one_hot # None =>
          \A b \in 1..Len(button_array) : \A t \in 1..Len(button_array[b]) :
             Cardinality(NewlyPressedIn(b, t)) > 1
             => \E d \in NewlyPressedIn(b, t) : Active(button_one_hot[1][b][t]) = {d}

(***************************************************************************)
(* Claims about Preprocessor.offset_features (checked under SpecPrep).     *)
(***************************************************************************)
\* C19: for every feature f of the sample and every t in [0, seq_len), the
\* window offset_features makes for f has a position t, and the frame there is
\* the frame of the sample at index reference_frame_idx + offset(f) + t, with
\* offset(f) = 0 for a feature the map does not name.
C19_Alignment ==
    offset_features # None =>
       \A f \in DOMAIN sample_T[1] : \A t \in 0..(seq_len - 1) :
          /\ t < Len(offset_features[1][f])
          /\ offset_features[1][f][t + 1]
                = sample_T[1][f][reference_frame_idx + OffsetOf(f) + t + 1]

\* C20: given a sample of trajectory_sampling_len frames, offset_features
\* returns, for every feature, a window of exactly seq_len frames (no slice
\* is cut short by the end of the sample, nothing is raised), whatever the
\* signs of the offsets in the map.
C20_WindowOfSeqLen ==
    (/\ offset_features # None
     /\ \A f \in DOMAIN sample_T[1] : Len(sample_T[1][f]) = trajectory_sampling_len)
    => /\ prep_exc = "none"
       /\ \A f \in DOMAIN offset_features[1] : Len(offset_features[1][f]) = seq_len

\* The frames alignment needs: seq_len plus the spread of the offsets, a
\* feature the map does not name (there always is one) having offset 0.
RequiredFrames == seq_len + (MaxDefault({ OffsetOf(f) : f \in FeatureNames }, 0)
                             - MinDefault({ OffsetOf(f) : f \in FeatureNames }, 0))

\* C21: with an episode of fewer than seq_len + (max_offset - min_offset)
\* frames, sample_from_episode (random start or debug) and offset_features
\* return no window, and the error they end with is an insufficient-history
\* error of the Preprocessor (not an error of random.randint or TensorDict
\* that happens to follow from the short arrays).
C21_InsufficientHistory ==
    episode_len < RequiredFrames
    => /\ prep_exc \in {"none", "InsufficientHistory"}
       /\ offset_features # None => prep_exc # "none"

(***************************************************************************)
(* More claims about run_episode and model_server (checked under SpecEp).  *)
(***************************************************************************)
\* run_episode is in its episode loop.
EpInLoop == ep_pc \in {"loop", "await_decision"}

\* The sentinels put on input_queue so far: those still queued and the one
\* model_server took (it exits only on a sentinel).
SentinelsPut == Count(input_queue, None) + BoolToInt(ml_process = "exited")

\* C22: every way out of run_episode's loop leads into the finally clause,
\* which puts the sentinel on input_queue (the only place that does, and it
\* does so once), then joins the worker and terminates it if it is still
\* alive; from then on the worker is not alive.
C22_WorkerTeardown ==
    /\ [][(EpInLoop /\ ~EpInLoop') => (ep_pc' = "finally" /\ ep_left_by' # "none")]_vars
    /\ [][(input_queue' = Append(input_queue, None))
            <=> (ep_pc = "finally" /\ ep_pc' = "join")]_vars
    /\ [][(ep_pc = "finally" /\ ep_pc' # ep_pc) => ep_pc' = "join"]_vars
    /\ [][(ep_pc = "join" /\ ep_pc' # ep_pc)
            => (ep_pc' = "exit_manager" /\ ~WorkerAlive')]_vars
    /\ []((ep_pc \in {"join", "exit_manager", "done"} /\ ep_left_by # "none")
          => SentinelsPut = 1)
    /\ []((ep_pc \in {"exit_manager", "done"} /\ ep_left_by # "none") => ~WorkerAlive)
    /\ [](ep_pc \notin {"join", "exit_manager", "done"} => SentinelsPut = 0)

C22_Witness ==
    /\ ep_pc = "done" /\ ep_left_by = "exception" /\ ep_outcome = "raised"
    /\ ml_process = "terminated" /\ input_queue = <<None>> /\ ep_console.stops = 1

\* C23: when the worker has crashed and run_episode waits in
\* output_queue.get() for a decision that will not come, the wait ends and
\* the teardown is reached (console.stop() is called).  Checked under
\* SpecEpFair.
C23_CrashBounded ==
    (ml_process = "crashed" /\ ep_pc = "await_decision" /\ output_queue = <<>>)
       ~> (ep_console.stops > 0)

\* A step of the model in which model_server takes the sentinel from input_queue.
SentinelTaken ==
    /\ ml_process = "waiting" /\ input_queue # <<>> /\ Head(input_queue) = None
    /\ input_queue' = Tail(input_queue)

\* C24: when model_server takes the sentinel from input_queue it ends: it
\* publishes no decision for it and leaves frame_data as it is; once it has
\* ended it takes no message, publishes nothing and stays ended.
C24_SentinelStopsWorker ==
    /\ [][SentinelTaken
            => /\ ml_process' = "exited"
               /\ frame_data' = frame_data /\ consumed' = consumed
               /\ published' = published /\ output_queue' = output_queue]_vars
    /\ [][ml_process = "exited"
            => /\ ml_process' = "exited"
               /\ Len(input_queue') >= Len(input_queue)
               /\ frame_data' = frame_data /\ consumed' = consumed
               /\ published' = published
               /\ Len(output_queue') <= Len(output_queue)]_vars
    /\ [](ml_process = "exited" => worker_gamestate = None)

C24_Witness ==
    /\ ml_process = "exited" /\ input_queue = <<>> /\ worker_gamestate = None
    /\ Len(consumed) = 2 /\ Len(published) = 2 /\ Len(frame_data) = 2
    /\ ep_left_by = "interrupt" /\ Len(output_queue) = 1

(***************************************************************************)
(* More claims about EmulatorManager.run_game (checked under Spec).        *)
(***************************************************************************)
\* C25: a KeyboardInterrupt raised in the loop inside console_manager leaves
\* the loop for console_manager, which catches it: the finally block runs
\* (console.stop() is called once, the SIGINT handler saved on entry is put
\* back), and the generator returns instead of raising.
C25_InterruptCaught ==
    /\ [][(exc' = "KeyboardInterrupt" /\ exc # "KeyboardInterrupt")
            => /\ pc \in {"loop", "await_step"} /\ sigint_handler = "console_manager"
               /\ pc' = "exit_manager" /\ left_by' = "interrupt"]_vars
    /\ []((left_by = "interrupt" /\ pc = "exit_manager")
          => (exc = "KeyboardInterrupt" /\ sigint_handler = "console_manager"))
    /\ []((left_by = "interrupt" /\ pc \in {"exit_executor", "done"})
          => /\ exc = "none"
             /\ console.stops = 1 /\ ~console.running
             /\ Count(teardown, "stop") = 1
             /\ sigint_handler = "original")
    /\ []((left_by = "interrupt" /\ pc = "done") => outcome = "returned")

C25_Witness ==
    /\ pc = "done" /\ left_by = "interrupt" /\ outcome = "returned" /\ exc = "none"
    /\ console.stops = 1 /\ sigint_handler = "original" /\ yields = 1


\* C26: once the teardown of run_game has run (the loop was left by break,
\* exhaustion, interrupt, timeout or exception and console_manager has exited),
\* both controllers are released as well as the console being stopped.
C26_ControllersReleased ==
    (pc \in {"exit_executor", "done"} /\ left_by # "none")
    => /\ console.stops = 1
       /\ ~ego_controller.connected
       /\ ~opponent_controller.connected

\* C27: when a connection step fails after console.run() launched the
\* emulator, console.stop() has been called by the time the process exits
\* with a nonzero status.
C27_StopBeforeExit ==
    (outcome = "exited" /\ console.running)
    => /\ exit_code # None /\ exit_code # Some(0)
       /\ console.stops >= 1


(***************************************************************************)
(* Claims about find_open_udp_ports (checked under SpecPorts).             *)
(***************************************************************************)
\* The ports of the range that no listed wildcard socket uses.
UnusedPorts == { p \in min_port..(max_port - 1) : p \notin used_ports }

\* C28: on a system with netstat, for every set of used ports and every
\* requested count num, find_open_udp_ports returns exactly num pairwise
\* distinct ports, each in [min_port, max_port) and none of them used; when
\* fewer than num ports of the range are unused it raises and returns nothing.
C28_OpenPorts ==
    /\ open_ports # None
       => LET ports == open_ports[1] IN
          /\ Len(ports) = num
          /\ \A a, b \in 1..Len(ports) : a # b => ports[a] # ports[b]
          /\ \A a \in 1..Len(ports) :
                /\ min_port <= ports[a] /\ ports[a] < max_port
                /\ ports[a] \notin used_ports
          /\ ports_exc = "none"
          /\ Cardinality(UnusedPorts) >= num
    /\ (PortsCalled /\ system \in {"Linux", "Darwin"} /\ Cardinality(UnusedPorts) < num)
       => (ports_exc = "RuntimeError" /\ open_ports = None)
    /\ (PortsCalled /\ system \in {"Linux", "Darwin"} /\ Cardinality(UnusedPorts) >= num)
       => (ports_exc = "none" /\ open_ports # None)

C28_Witness ==
    /\ open_ports # None
    /\ num = 2
    /\ Len(open_ports[1]) = 2
    /\ Cardinality(used_ports \cap (min_port..(max_port - 1))) = 1
    /\ Cardinality(netstat_lines) = 2


ByDefault(m) == manager_stats[m] = Some(DefaultStats)

StatsOf(m) == stats_objects[manager_stats[m][1]]

\* C30: an EmulatorManager created without an episode_stats argument has its
\* own EpisodeStats: its damage, stock and frame counters are zero until it
\* processes a frame itself, and a frame processed by one such manager leaves
\* the stats of every other such manager unchanged.
C30_OwnEpisodeStats ==
    /\ [](\A m \in Managers :
            (ByDefault(m) /\ manager_frames[m] = 0)
            => /\ StatsOf(m).frames = 0
               /\ StatsOf(m).p1_damage = 0 /\ StatsOf(m).p2_damage = 0
               /\ StatsOf(m).p1_stocks_lost = 0 /\ StatsOf(m).p2_stocks_lost = 0)
    /\ [][\A m, o \in Managers :
            (m # o /\ ByDefault(m) /\ ByDefault(o) /\ manager_frames'[m] # manager_frames[m])
            => StatsOf(o)' = StatsOf(o)]_vars


(***************************************************************************)
(* More claims about self_play_menu_helper (checked under SpecHelpers).    *)
(***************************************************************************)
\* A call of self_play_menu_helper that leaves both controllers untouched.
NoMenuAction ==
    menu_controller_1' = menu_controller_1 /\ menu_controller_2' = menu_controller_2

\* C31: with character_2 unconfigured no call of self_play_menu_helper acts on
\* controller_2, and on the character select screen with player 1's character
\* confirmed it acts on neither controller; with stage_selected unconfigured a
\* call on the stage select screen acts on neither controller.
C31_UnconfiguredDefers ==
    /\ [][(MenuHelperCalled /\ cfg_character_2 = None)
            => menu_controller_2' = menu_controller_2]_vars
    /\ [][(MenuHelperCalled /\ cfg_character_2 = None
             /\ menu_gamestate'[1].menu_state = "CHARACTER_SELECT"
             /\ menu_gamestate'[1].p1_selected)
            => NoMenuAction]_vars
    /\ [][(MenuHelperCalled /\ cfg_stage_selected = None
             /\ menu_gamestate'[1].menu_state = "STAGE_SELECT")
            => NoMenuAction]_vars

C31_Witness ==
    /\ cfg_character_2 = None /\ cfg_stage_selected = None
    /\ helper_calls = 2 /\ menu_gamestate # None
    /\ menu_gamestate[1].menu_state = "STAGE_SELECT"
    /\ menu_controller_1.calls = 0 /\ menu_controller_2.calls = 0


\* The number of MenuHelper calls a step makes on the two controllers.
MenuActions ==
    (menu_controller_1'.calls - menu_controller_1.calls)
    + (menu_controller_2'.calls - menu_controller_2.calls)

\* A call of self_play_menu_helper that follows a first call of it and issues
\* what that first call issued.
RepeatsFirstCall ==
    /\ menu_controller_1'.calls - menu_controller_1.calls = menu_controller_1.calls
    /\ menu_controller_2'.calls - menu_controller_2.calls = menu_controller_2.calls
    /\ menu_controller_1'.last = menu_controller_1.last
    /\ menu_controller_2'.last = menu_controller_2.last

\* The per-state part of C40: at most one action per invocation;
\* choose_versus_mode on controller_1 on the main menu, skip_postgame on
\* controller_1 on every postgame invocation, nothing in game or in any other
\* state.
MenuActionByState ==
    /\ [][MenuHelperCalled => MenuActions \in {0, 1}]_vars
    /\ [][(MenuHelperCalled /\ menu_gamestate'[1].menu_state = "MAIN_MENU")
            => /\ menu_controller_1'.calls = menu_controller_1.calls + 1
               /\ menu_controller_1'.last = <<Op("choose_versus_mode", "", <<>>)>>
               /\ menu_controller_2' = menu_controller_2]_vars
    /\ [][(MenuHelperCalled /\ menu_gamestate'[1].menu_state = "POSTGAME_SCORES")
            => /\ menu_controller_1'.calls = menu_controller_1.calls + 1
               /\ menu_controller_1'.last = <<Op("skip_postgame", "", <<>>)>>
               /\ menu_controller_2' = menu_controller_2]_vars
    /\ [][(MenuHelperCalled
             /\ menu_gamestate'[1].menu_state \notin
                  {"MAIN_MENU", "CHARACTER_SELECT", "STAGE_SELECT", "POSTGAME_SCORES"})
            => NoMenuAction]_vars

\* C40 as stated: the per-state actions, and the action of an invocation is
\* determined by menu_state and the configuration alone: a second invocation
\* with the menu_state of the first issues what the first issued.
C40_ByMenuStateAlone ==
    /\ MenuActionByState
    /\ [][(MenuHelperCalled /\ helper_calls = 1 /\ menu_gamestate # None
             /\ menu_gamestate'[1].menu_state = menu_gamestate[1].menu_state)
            => RepeatsFirstCall]_vars

\* C40, amended: the per-state actions, and the action of an invocation is
\* determined by menu_state, by whether player 1's character is already
\* character_1 (read on the character select screen) and by the configuration:
\* a second invocation with the same two readings issues what the first issued.
C40_ByGamestateAlone ==
    /\ MenuActionByState
    /\ [][(MenuHelperCalled /\ helper_calls = 1 /\ menu_gamestate # None
             /\ menu_gamestate'[1].menu_state = menu_gamestate[1].menu_state
             /\ menu_gamestate'[1].p1_selected = menu_gamestate[1].p1_selected)
            => RepeatsFirstCall]_vars

C40_Witness ==
    /\ helper_calls = 2 /\ menu_gamestate # None
    /\ menu_gamestate[1].menu_state = "POSTGAME_SCORES"
    /\ menu_controller_1.calls = 2
    /\ menu_controller_1.last = <<Op("skip_postgame", "", <<>>)>>
    /\ menu_controller_2.calls = 0


(***************************************************************************)
(* Claims about extract_and_append_single_frame_inplace (checked under     *)
(* SpecReplay).                                                            *)
(***************************************************************************)
ColumnLen(c) == Len(replay_frame_data[c])

SameLength == \A c, d \in Columns : ColumnLen(c) = ColumnLen(d)

\* Row r of frame_data holds the stage and player state of g_(r-1) and the
\* controller state of g_r, for the two ports of g_(r-1) in increasing order.
RowAligned(r) ==
    LET g == replay_fed[r]
        next == replay_fed[r + 1]
        ports == SortedPorts(DOMAIN g.players)
    IN /\ replay_frame_data["frame"][r] = g.frame
       /\ replay_frame_data["stage"][r] = IDX_BY_STAGE[g.stage]
       /\ replay_frame_data["p1"][r].frame = g.frame
       /\ replay_frame_data["p1"][r].port = ports[1]
       /\ replay_frame_data["p2"][r].frame = g.frame
       /\ replay_frame_data["p2"][r].port = ports[2]
       /\ replay_frame_data["p1_controller"][r] = [frame |-> next.frame, port |-> ports[1]]
       /\ replay_frame_data["p2_controller"][r] = [frame |-> next.frame, port |-> ports[2]]

\* When every call so far returned: g_0..g_n fed, n rows, all aligned.
RowsOfReturnedCalls ==
    replay_status \in {"running", "ended"}
    => /\ (replay_fed = <<>> \/ Len(replay_fed) = 1) => ColumnLen("frame") = 0
       /\ replay_fed # <<>> => ColumnLen("frame") = Len(replay_fed) - 1
       /\ SameLength
       /\ \A r \in 1..ColumnLen("frame") : RowAligned(r)

\* C33 as stated: after g_0..g_n frame_data holds n rows, row i pairing the
\* state of g_i with the controller state of g_(i+1); the first call appends
\* nothing; and after every call all columns have the same length.
C33_ColumnsAlwaysEqual ==
    /\ RowsOfReturnedCalls
    /\ SameLength

\* C33, amended: the rows are as stated after calls that return.  A call that
\* raises because prev_gamestate has not exactly two players appends nothing; a
\* call that raises KeyError (stage or character without an index, or a port
\* missing from the next gamestate) has appended to some columns only, leaving
\* the earlier rows intact, and process_replay then stops.
C33_RowsPairStateWithNextInput ==
    /\ RowsOfReturnedCalls
    /\ replay_status = "ValueError"
       => /\ SameLength
          /\ ColumnLen("frame") = Len(replay_fed) - 2
          /\ \A r \in 1..ColumnLen("frame") : RowAligned(r)
    /\ replay_status = "KeyError"
       => /\ \A c \in Columns : ColumnLen(c) \in {Len(replay_fed) - 2, Len(replay_fed) - 1}
          /\ ColumnLen("replay_uuid") = Len(replay_fed) - 1
          /\ ColumnLen("p2_controller") = Len(replay_fed) - 2
          /\ \A r \in 1..(Len(replay_fed) - 2) : RowAligned(r)

C33_Witness ==
    /\ replay_status = "ended"
    /\ Len(replay_fed) = 3
    /\ ColumnLen("frame") = 2 /\ SameLength
    /\ replay_frame_data["p2"][2].frame = 1
    /\ replay_frame_data["p2_controller"][2].frame = 2
    /\ replay_fed[1].stage # replay_fed[2].stage


(***************************************************************************)
(* Claims about sparse_one_hot (checked under SpecSparse).                 *)
(***************************************************************************)
\* The pressed set of frame t: its button columns that are set.
PressedAt(array, t) == { d \in 1..(Len(array[t]) - 1) : array[t][d] = 1 }

\* Frame t is the first frame of a maximal run of frames with one unchanged,
\* non-empty pressed set.
StartsRun(array, t) ==
    /\ PressedAt(array, t) # {}
    /\ (t = 1 \/ PressedAt(array, t - 1) # PressedAt(array, t))

\* C32: sparse_one_hot labels the first frame of every maximal run of frames
\* with an unchanged non-empty pressed set with a button category, and labels
\* every other frame of a run, and every frame with the empty pressed set, as
\* no-button: the last column alone.
C32_FirstFrameOfRunOnly ==
    sparse_result # None
    => \A t \in 1..Len(sparse_array) :
          LET D == Len(sparse_array[t])
              row == sparse_result[1][t]
          IN IF StartsRun(sparse_array, t)
             THEN /\ row[D] = 0
                  /\ \E d \in PressedAt(sparse_array, t) : row[d] = 1
                  /\ \A d \in 1..(D - 1) : row[d] = 1 => d \in PressedAt(sparse_array, t)
             ELSE row = SetBit(ZeroRow(D), D)


(***************************************************************************)
(* Termination of run_game after a step timeout (checked under SpecFair).  *)
(***************************************************************************)
\* C34: after a step timeout the generator always finishes and control
\* returns to the caller, whether or not the timed-out console.step() call
\* ever returns.
C34_TimeoutAlwaysFinishes == (left_by = "timeout") ~> (pc = "done")


(***************************************************************************)
(* More claims about run_episode (checked under SpecEp).                   *)
(***************************************************************************)
\* C35: on every exit path of run_episode, the paths where the console or a
\* controller fails to connect included, the inference worker has been sent
\* the stop sentinel or has been terminated.
C35_WorkerStoppedOnEveryExit ==
    ep_pc = "done" => (SentinelsPut > 0 \/ ml_process = "terminated")


(***************************************************************************)
(* The held-button state of convert_target_to_one_hot (checked under       *)
(* SpecEnc).                                                               *)
(***************************************************************************)
\* C36: in convert_target_to_one_hot the held-button state after frame t is
\* exactly the set of buttons pressed in frame t: released buttons are removed
\* and frames with zero or one pressed button update it as well.
C36_HeldIsPressed ==
    target_one_hot # None
    => \A t \in 1..Len(target_array) :
          HeldButtonsAfter(target_array, t) = ButtonsAt(target_array, t)


\* The features of the last n observations the worker consumed, oldest first.
LastFeatures(n) ==
    [j \in 1..n |-> Features(consumed[Len(consumed) - n + j])]

\* C37: after k observations the sliding buffer holds the min(k, input_len)
\* most recent ones in arrival order, never more than input_len, and it changes
\* only by appending the newest frame, evicting the oldest when it is full.
C37_SlidingBuffer ==
    /\ [](Len(frame_data) <= InputLen)
    /\ [](Len(frame_data) = Min(Len(consumed), InputLen))
    /\ [](frame_data = LastFeatures(Len(frame_data)))
    /\ [][frame_data' # frame_data
            => /\ Len(consumed') = Len(consumed) + 1
               /\ \/ frame_data' = Append(frame_data, Features(consumed'[Len(consumed')]))
                  \/ /\ Len(frame_data) = InputLen
                     /\ frame_data' = Append(Tail(frame_data), Features(consumed'[Len(consumed')]))]_vars

C37_Witness ==
    /\ Len(consumed) = InputLen + 1
    /\ Len(frame_data) = InputLen
    /\ frame_data[InputLen] # frame_data[1]
    /\ Features(consumed[1]) # frame_data[1]


(***************************************************************************)
(* Claims about pad_tensors (checked under SpecPad).                       *)
(***************************************************************************)
\* A frame of zeros of the shape of the frames of tensor v.
ZeroFrame(v) == IF v.ndim = 1 THEN 0 ELSE Zeros(Len(v.data[1]))

\* C38: when td holds T < length frames, pad_tensors returns a window of
\* exactly length frames whose first length - T frames are zero and whose last
\* T frames are td's frames in their order; when td holds at least length
\* frames it returns td unchanged.
C38_LeftZeroPadded ==
    PadCalled
    => LET T == Len(pad_td.data) IN
       IF T < pad_length
       THEN /\ pad_result # None
            /\ Len(pad_result[1].data) = pad_length
            /\ \A k \in 1..(pad_length - T) : pad_result[1].data[k] = ZeroFrame(pad_td)
            /\ \A k \in 1..T : pad_result[1].data[pad_length - T + k] = pad_td.data[k]
       ELSE pad_result = Some(pad_td)


(***************************************************************************)
(* Claims about EpisodeStats.update (checked under SpecStats).             *)
(***************************************************************************)
\* C39: over any sequence of update calls p1_damage, p2_damage,
\* p1_stocks_lost, p2_stocks_lost and frames never decrease, frames is the
\* number of calls made with an IN_GAME or SUDDEN_DEATH state, and a call with
\* any other menu state changes no field.
C39_MonotoneCounters ==
    /\ [][\A f \in CounterFields \ {"episodes"} : stats'[f] >= stats[f]]_vars
    /\ [](stats.frames = stats_in_game_calls)
    /\ [][(stats_calls' = stats_calls + 1 /\ stats_in_game_calls' = stats_in_game_calls)
            => stats' = stats]_vars

C39_Witness ==
    /\ stats_calls = 3
    /\ stats.frames = 2
    /\ stats.p1_damage = 10
    /\ stats.p1_stocks_lost = 1
    /\ stats.prev_p1_percent = 0

=============================================================================
